---- MODULE Spec2Model ----
(***************************************************************************)
(* Model of the mimeapps resolution engine of MatthiasKunnen/xdg:          *)
(* mimeapps.Parse, GetAssociations, GetDefaults and                        *)
(* GetPreferredApplications (src/mimeapps/parse.go, src/mimeapps/util.go). *)
(*                                                                         *)
(* Strings that the code takes apart (paths, lines of a mimeapps.list) are *)
(* sequences of chunks: a chunk is a piece of text that the code never     *)
(* splits, and the separators "/", "=", ";" are chunks of their own.       *)
(* Go maps are functions whose DOMAIN is the set of keys present; a nil    *)
(* slice is <<>>.  Location indices are 0-based as in the code.            *)
(***************************************************************************)
EXTENDS Integers, Sequences, FiniteSets, TLC

(***************************************************************************)
(* Bounds of the explored inputs.                                          *)
(***************************************************************************)
MaxLocations == 2
MaxLines == 2
MaxManifests == 2
MaxFacts == 3

(***************************************************************************)
(* Universe of the explored inputs.                                        *)
(***************************************************************************)
\* Desktop ids, listed in ascending lexicographic order (the order slices.Sort uses).
DesktopIds == <<"bar.desktop", "foo.desktop">>
Ids == {DesktopIds[k] : k \in 1..Len(DesktopIds)}
Mimes == {"text/plain", "text/html"}
DirApps == <<"/", "applications">>
DirSub == <<"/", "applications", "/", "kde">>
ManifestDirs == {DirApps, DirSub}
Sections == {"[Default Applications]", "[Added Associations]", "[Removed Associations]"}

(***************************************************************************)
(* Generic helpers: Go map read/write, ranges, orders of a map iteration.  *)
(***************************************************************************)
Get(m, k) == IF k \in DOMAIN m THEN m[k] ELSE <<>>
Put(m, k, v) == [x \in (DOMAIN m) \cup {k} |-> IF x = k THEN v ELSE m[x]]
Range(s) == {s[k] : k \in 1..Len(s)}
Contains(s, e) == \E k \in 1..Len(s) : s[k] = e
NoDuplicates(s) == \A p, q \in 1..Len(s) : s[p] = s[q] => p = q
IsPrefix(p, s) == Len(p) <= Len(s) /\ SubSeq(s, 1, Len(p)) = p
\* Every order in which a range loop may visit the keys of a Go map.
Orders(S) == {o \in [1..Cardinality(S) -> S] : \A p, q \in 1..Cardinality(S) : o[p] = o[q] => p = q}
EmptyMap == [x \in {} |-> <<>>]

(***************************************************************************)
(* Paths.                                                                  *)
(***************************************************************************)
HasPrefix(s, prefix) == Len(prefix) <= Len(s) /\ SubSeq(s, 1, Len(prefix)) = prefix
LastSeparator(path) == CHOOSE k \in 1..Len(path) : path[k] = "/" /\ \A q \in (k+1)..Len(path) : path[q] # "/"
\* filepath.Dir of a clean absolute path
Dir(path) == IF LastSeparator(path) = 1 THEN <<"/">> ELSE SubSeq(path, 1, LastSeparator(path) - 1)
\* filepath.Base of a clean absolute path
Base(path) == SubSeq(path, LastSeparator(path) + 1, Len(path))
isSubPathAbs(sub, parent) == HasPrefix(sub \o <<"/">>, parent \o <<"/">>)
\* filepath.Clean of an absolute path: no separator twice in a row, none at the end
RECURSIVE Clean(_)
Clean(path) ==
    IF Len(path) <= 1 THEN path
    ELSE IF path[Len(path)] = "/" THEN Clean(SubSeq(path, 1, Len(path) - 1))
    ELSE IF path[1] = "/" /\ path[2] = "/" THEN Clean(Tail(path))
    ELSE <<path[1]>> \o Clean(Tail(path))
\* the elements that are not empty, a separator between two of them
RECURSIVE JoinRaw(_)
JoinRaw(elems) ==
    IF elems = <<>> THEN <<>>
    ELSE IF Head(elems) = <<>> THEN JoinRaw(Tail(elems))
    ELSE IF JoinRaw(Tail(elems)) = <<>> THEN Head(elems)
    ELSE Head(elems) \o <<"/">> \o JoinRaw(Tail(elems))
\* filepath.Join
Join(elems) == Clean(JoinRaw(elems))

(***************************************************************************)
(* mimeapps.Parse over the lines of a file.                                *)
(***************************************************************************)
addToNone == 0
addToDefault == 1
addToAdded == 2
addToRemoved == 3

\* strings.SplitN(line, "=", 2)
SplitN2(line) ==
    IF \E k \in 1..Len(line) : line[k] = "="
    THEN LET k == CHOOSE k \in 1..Len(line) : line[k] = "=" /\ \A q \in 1..(k-1) : line[q] # "="
         IN <<SubSeq(line, 1, k - 1), SubSeq(line, k + 1, Len(line))>>
    ELSE <<line>>
\* strings.TrimSuffix(s, ";")
TrimSuffix(s) == IF Len(s) > 0 /\ s[Len(s)] = ";" THEN SubSeq(s, 1, Len(s) - 1) ELSE s
\* The text of a chunk sequence that holds no separator: "" for the empty sequence.
RECURSIVE Text(_)
Text(s) == IF s = <<>> THEN "" ELSE IF Len(s) = 1 THEN s[1] ELSE s[1] \o Text(Tail(s))
\* strings.Split(s, ";"): always at least one element
RECURSIVE Split(_)
Split(s) ==
    IF \E k \in 1..Len(s) : s[k] = ";"
    THEN LET k == CHOOSE k \in 1..Len(s) : s[k] = ";" /\ \A q \in 1..(k-1) : s[q] # ";"
         IN <<Text(SubSeq(s, 1, k - 1))>> \o Split(SubSeq(s, k + 1, Len(s)))
    ELSE <<Text(s)>>

EmptyMimeApps == [Default |-> EmptyMap, Added |-> EmptyMap, Removed |-> EmptyMap]

ParseLine(line, acc) ==
    IF line = <<>> THEN acc
    ELSE IF line = <<"[Default Applications]">> THEN [acc EXCEPT !.status = addToDefault]
    ELSE IF line = <<"[Added Associations]">> THEN [acc EXCEPT !.status = addToAdded]
    ELSE IF line = <<"[Removed Associations]">> THEN [acc EXCEPT !.status = addToRemoved]
    ELSE IF acc.status = addToNone THEN acc
    ELSE LET split == SplitN2(line) IN
         IF Len(split) = 1 THEN acc
         ELSE LET mimeType == Text(split[1])
                  apps == Split(TrimSuffix(split[2]))
              IN IF acc.status = addToDefault
                 \* set or appended to, then overwritten by result.Default[mimeType] = apps
                 THEN [acc EXCEPT !.result.Default = Put(Put(@, mimeType, Get(@, mimeType) \o apps), mimeType, apps)]
                 ELSE IF acc.status = addToAdded
                 THEN [acc EXCEPT !.result.Added = Put(@, mimeType, Get(@, mimeType) \o apps)]
                 ELSE [acc EXCEPT !.result.Removed = Put(@, mimeType, Get(@, mimeType) \o apps)]

RECURSIVE ParseLines(_, _)
ParseLines(lines, acc) ==
    IF lines = <<>> THEN acc ELSE ParseLines(Tail(lines), ParseLine(Head(lines), acc))

Parse(lines) == ParseLines(lines, [status |-> addToNone, result |-> EmptyMimeApps]).result

\* the directives read before the failure are kept
ParseFileKeepsRead(file) == Parse(file.lines)
\* A reader: the lines it yields and whether the scanner ends with an error (sc.Err()).
NoReader == [lines |-> <<>>, err |-> FALSE]
\* ParseFile: a file that cannot be opened or read yields MimeApps{} and an error.
ParseFile(file) == IF file.status = "ok" THEN Parse(file.lines) ELSE EmptyMimeApps

(***************************************************************************)
(* State.  The first four variables are the inputs of a call: the list of  *)
(* locations, the mimeapps.list files and the desktop files found on the   *)
(* filesystem, and the id-to-paths index.  The others are the locals of    *)
(* GetAssociations, GetDefaults and GetPreferredApplications; run and      *)
(* firstResult belong to a caller that calls GetAssociations twice on the  *)
(* same inputs and keeps the table of the first call.                      *)
(***************************************************************************)
VARIABLES mimeappsLocations, files, idPathsMap, desktopFiles,
          pc, i, parsed, desktopIdLowestIndex,
          result, blacklistMimeDesktop, blacklistDesktopIds, toAdd,
          associations, defaults,
          run, firstResult, firstDefaults, firstFiles,
          basedir, desktop, list,
          reader, sc, status, mimeApps,
          sub, parent, isSub,
          readers, dict, heap, query, returned

inputs == <<mimeappsLocations, files, idPathsMap, desktopFiles>>
\* The table of defaults and the files of a first call, the package-level base directories, the
\* argument and the result of GetLists, and the reader and the locals of Parse.
\* The arguments and the result of isSubPathAbs; the lines given to LoadFromReaders, the
\* dictionary of the Subclass with the arrays behind its slices, and the argument and the
\* result of a query of the Subclass.
more == <<sub, parent, isSub, readers, dict, heap, query, returned>>
others == <<firstDefaults, firstFiles, basedir, desktop, list, reader, sc, status, mimeApps, more>>
vars == <<mimeappsLocations, files, idPathsMap, desktopFiles, pc, i, parsed, desktopIdLowestIndex,
          result, blacklistMimeDesktop, blacklistDesktopIds, toAdd, associations, defaults,
          run, firstResult, firstDefaults, firstFiles, basedir, desktop, list, reader, sc, status, mimeApps,
          sub, parent, isSub, readers, dict, heap, query, returned>>

Location(k) == mimeappsLocations[k + 1]
NumLocations == Len(mimeappsLocations)
MimeappsList == <<"mimeapps.list">>
\* no file is taken for a $desktop-mimeapps.list
NeverQualified(path) == FALSE
\* filepath.Base(path) != "mimeapps.list"
IsQualified(path) == Base(path) # MimeappsList

(***************************************************************************)
(* GetAssociations: the index of the lowest precedence desktop file.      *)
(***************************************************************************)
\* The loop over mimeappsLocations, from index k on, of one desktop id.
RECURSIVE LowestPrecedenceFrom(_, _, _)
LowestPrecedenceFrom(paths, k, lowestPrecedence) ==
    IF k >= NumLocations THEN lowestPrecedence
    ELSE LowestPrecedenceFrom(paths, k + 1,
            IF \E p \in 1..Len(paths) : isSubPathAbs(paths[p], Dir(Location(k).Path))
            THEN k ELSE lowestPrecedence)

LowestPrecedence(paths) == LowestPrecedenceFrom(paths, 0, -1)

\* the check of existence alone, without the comparison of the depth
RefersToUnknownDesktopId(desktopId, k) ==
    desktopId \notin DOMAIN desktopIdLowestIndex

\* the comparison of the depth alone: the depth of an id that is no key of the map reads 0
RefersToShallowDesktopFile(desktopId, k) ==
    (IF desktopId \in DOMAIN desktopIdLowestIndex THEN desktopIdLowestIndex[desktopId] ELSE 0) < k

\* depth, exists := desktopIdLowestIndex[desktopId]; if !exists || depth < i { continue }
RefersToMissingDesktopFile(desktopId, k) ==
    desktopId \notin DOMAIN desktopIdLowestIndex \/ desktopIdLowestIndex[desktopId] < k

(***************************************************************************)
(* GetAssociations: the loops over parsed.Added and parsed.Removed.  The   *)
(* accumulator st holds result and blacklistMimeDesktop (a map from MIME   *)
(* type to the set of desktop ids mapped to true).                         *)
(***************************************************************************)
Blacklisted(bl, mime, desktopId) == mime \in DOMAIN bl /\ desktopId \in bl[mime]
Blacklist(bl, mime, desktopId) == Put(bl, mime, (IF mime \in DOMAIN bl THEN bl[mime] ELSE {}) \cup {desktopId})
MakeIfNil(bl, mime) == IF mime \in DOMAIN bl THEN bl ELSE Put(bl, mime, {})

\* AddedDesktopId without the check of blacklistMimeDesktop
AddedDesktopIdNoPairCheck(desktopId, mime, st) ==
    IF desktopId \in blacklistDesktopIds THEN st
    ELSE IF RefersToMissingDesktopFile(desktopId, i) THEN st
    ELSE [result |-> Put(st.result, mime, Append(Get(st.result, mime), desktopId)),
          blacklistMimeDesktop |-> Blacklist(st.blacklistMimeDesktop, mime, desktopId)]

AddedDesktopId(desktopId, mime, st) ==
    IF desktopId \in blacklistDesktopIds THEN st
    ELSE IF RefersToMissingDesktopFile(desktopId, i) THEN st
    ELSE IF Blacklisted(st.blacklistMimeDesktop, mime, desktopId) THEN st
    ELSE [result |-> Put(st.result, mime, Append(Get(st.result, mime), desktopId)),
          blacklistMimeDesktop |-> Blacklist(st.blacklistMimeDesktop, mime, desktopId)]

\* RemovedDesktopId that also retracts the id from the table
RECURSIVE Without(_, _)
Without(s, e) ==
    IF s = <<>> THEN <<>>
    ELSE (IF Head(s) = e THEN <<>> ELSE <<Head(s)>>) \o Without(Tail(s), e)
RemovedDesktopIdRetracts(desktopId, mime, st) ==
    IF desktopId \in blacklistDesktopIds THEN st
    ELSE IF RefersToMissingDesktopFile(desktopId, i) THEN st
    ELSE [result |-> IF mime \in DOMAIN st.result
                     THEN Put(st.result, mime, Without(st.result[mime], desktopId))
                     ELSE st.result,
          blacklistMimeDesktop |-> Blacklist(st.blacklistMimeDesktop, mime, desktopId)]

RemovedDesktopId(desktopId, mime, st) ==
    IF desktopId \in blacklistDesktopIds THEN st
    ELSE IF RefersToMissingDesktopFile(desktopId, i) THEN st
    ELSE [st EXCEPT !.blacklistMimeDesktop = Blacklist(@, mime, desktopId)]

RECURSIVE AddedDesktopIds(_, _, _)
AddedDesktopIds(desktopIds, mime, st) ==
    IF desktopIds = <<>> THEN st
    ELSE AddedDesktopIds(Tail(desktopIds), mime, AddedDesktopId(Head(desktopIds), mime, st))

RECURSIVE RemovedDesktopIds(_, _, _)
RemovedDesktopIds(desktopIds, mime, st) ==
    IF desktopIds = <<>> THEN st
    ELSE RemovedDesktopIds(Tail(desktopIds), mime, RemovedDesktopId(Head(desktopIds), mime, st))

\* for mime, desktopIds := range parsed.Added, the keys visited in the given order
RECURSIVE RangeAdded(_, _, _)
RangeAdded(added, order, st) ==
    IF order = <<>> THEN st
    ELSE RangeAdded(added, Tail(order),
            AddedDesktopIds(added[Head(order)], Head(order),
                [st EXCEPT !.blacklistMimeDesktop = MakeIfNil(@, Head(order))]))

\* for mime, desktopIds := range parsed.Removed, the keys visited in the given order
RECURSIVE RangeRemoved(_, _, _)
RangeRemoved(removed, order, st) ==
    IF order = <<>> THEN st
    ELSE RangeRemoved(removed, Tail(order),
            RemovedDesktopIds(removed[Head(order)], Head(order),
                [st EXCEPT !.blacklistMimeDesktop = MakeIfNil(@, Head(order))]))

(***************************************************************************)
(* GetAssociations: the scan of the desktop files of a location.  The      *)
(* accumulator st holds blacklistDesktopIds (the set of ids mapped to      *)
(* true), blacklistMimeDesktop and toAdd.                                  *)
(***************************************************************************)
\* the loop over entry.MimeType without the check of blacklistMimeDesktop
RECURSIVE ScanMimeTypesNoPairCheck(_, _, _)
ScanMimeTypesNoPairCheck(mimeTypes, desktopId, st) ==
    IF mimeTypes = <<>> THEN st
    ELSE LET mime == Head(mimeTypes) IN
         ScanMimeTypesNoPairCheck(Tail(mimeTypes), desktopId,
            [st EXCEPT !.toAdd = Put(@, mime, Append(Get(@, mime), desktopId)),
                       !.blacklistMimeDesktop = Blacklist(@, mime, desktopId)])

\* the loop over entry.MimeType that stops after the first type
ScanMimeTypesFirstOnly(mimeTypes, desktopId, st) ==
    IF mimeTypes = <<>> THEN st
    ELSE LET mime == Head(mimeTypes) IN
         IF Blacklisted(st.blacklistMimeDesktop, mime, desktopId) THEN st
         ELSE [st EXCEPT !.toAdd = Put(@, mime, Append(Get(@, mime), desktopId)),
                         !.blacklistMimeDesktop = Blacklist(@, mime, desktopId)]

\* for _, mime := range entry.MimeType
RECURSIVE ScanMimeTypes(_, _, _)
ScanMimeTypes(mimeTypes, desktopId, st) ==
    IF mimeTypes = <<>> THEN st
    ELSE LET mime == Head(mimeTypes) IN
         ScanMimeTypes(Tail(mimeTypes), desktopId,
            IF Blacklisted(st.blacklistMimeDesktop, mime, desktopId) THEN st
            ELSE [st EXCEPT !.toAdd = Put(@, mime, Append(Get(@, mime), desktopId)),
                            !.blacklistMimeDesktop = Blacklist(@, mime, desktopId)])

\* ScanPath without the test that the desktop file lies under the directory
ScanPathAnywhere(desktopFilePath, desktopId, dirname, st) ==
    IF desktopId \in st.blacklistDesktopIds THEN st
    ELSE LET st1 == [st EXCEPT !.blacklistDesktopIds = @ \cup {desktopId}] IN
         IF ~desktopFiles[desktopFilePath].ok THEN st1
         ELSE ScanMimeTypes(desktopFiles[desktopFilePath].MimeType, desktopId, st1)

\* ScanPath that marks the id only after its desktop file has loaded
ScanPathMarksLoaded(desktopFilePath, desktopId, dirname, st) ==
    IF ~isSubPathAbs(desktopFilePath, dirname) THEN st
    ELSE IF desktopId \in st.blacklistDesktopIds THEN st
    ELSE IF ~desktopFiles[desktopFilePath].ok THEN st
    ELSE ScanMimeTypes(desktopFiles[desktopFilePath].MimeType, desktopId,
                       [st EXCEPT !.blacklistDesktopIds = @ \cup {desktopId}])

ScanPath(desktopFilePath, desktopId, dirname, st) ==
    IF ~isSubPathAbs(desktopFilePath, dirname) THEN st
    ELSE IF desktopId \in st.blacklistDesktopIds THEN st
    ELSE LET st1 == [st EXCEPT !.blacklistDesktopIds = @ \cup {desktopId}] IN
         IF ~desktopFiles[desktopFilePath].ok THEN st1
         ELSE ScanMimeTypes(desktopFiles[desktopFilePath].MimeType, desktopId, st1)

\* for _, desktopFilePath := range paths
RECURSIVE ScanPaths(_, _, _, _)
ScanPaths(paths, desktopId, dirname, st) ==
    IF paths = <<>> THEN st
    ELSE ScanPaths(Tail(paths), desktopId, dirname, ScanPath(Head(paths), desktopId, dirname, st))

\* for desktopId, paths := range idPathsMap, the keys visited in the given order
RECURSIVE RangeIdPathsMap(_, _, _)
RangeIdPathsMap(order, dirname, st) ==
    IF order = <<>> THEN st
    ELSE RangeIdPathsMap(Tail(order), dirname,
            IF Head(order) \in st.blacklistDesktopIds THEN st
            ELSE ScanPaths(idPathsMap[Head(order)], Head(order), dirname, st))

\* The position of a desktop id in the lexicographic order of strings.
Rank(desktopId) == CHOOSE k \in 1..Len(DesktopIds) : DesktopIds[k] = desktopId
RECURSIVE Insert(_, _)
Insert(e, sorted) ==
    IF sorted = <<>> THEN <<e>>
    ELSE IF Rank(e) <= Rank(Head(sorted)) THEN <<e>> \o sorted
    ELSE <<Head(sorted)>> \o Insert(e, Tail(sorted))
\* no sort at all
Unsorted(s) == s
\* slices.Sort
RECURSIVE Sort(_)
Sort(s) == IF s = <<>> THEN <<>> ELSE Insert(Head(s), Sort(Tail(s)))

\* for mime, desktopIds := range toAdd, the keys visited in the given order
RECURSIVE RangeToAdd(_, _)
RangeToAdd(order, res) ==
    IF order = <<>> THEN res
    ELSE RangeToAdd(Tail(order), Put(res, Head(order), Get(res, Head(order)) \o Sort(toAdd[Head(order)])))

(***************************************************************************)
(* GetDefaults.                                                            *)
(***************************************************************************)
\* IdPathMap.LoadById: the path of the first desktop file of the id that loads, "" (<<>>) if none
RECURSIVE FirstLoadable(_)
FirstLoadable(paths) ==
    IF paths = <<>> THEN <<>>
    ELSE IF desktopFiles[Head(paths)].ok THEN Head(paths)
    ELSE FirstLoadable(Tail(paths))

LoadById(desktopId) == FirstLoadable(Get(idPathsMap, desktopId))

\* DefaultDesktopId without the check against the associations
DefaultDesktopIdUnchecked(desktopId, mimeType, res) ==
    IF LoadById(desktopId) = <<>> THEN res
    ELSE Put(res, mimeType, Append(Get(res, mimeType), desktopId))

\* DefaultDesktopId that puts the id in front of the sequence
DefaultDesktopIdInFront(desktopId, mimeType, res) ==
    IF LoadById(desktopId) = <<>> THEN res
    ELSE IF ~Contains(Get(associations, mimeType), desktopId) THEN res
    ELSE Put(res, mimeType, <<desktopId>> \o Get(res, mimeType))

\* A nil index is the index NilIndex, which no desktop id is a key of.
NilIndex == [x \in {"nil"} |-> <<>>]
\* strings.Replace(desktopId, "-", "/", 1) as a path: the desktop ids have no hyphen
ReplaceHyphen == [desktopId \in Ids |-> <<desktopId>>]
\* GetDesktopFileLocations
GetDesktopFileLocations ==
    <<Join(<<basedir.DataHome, <<"applications">> >>)>>
    \o [k \in 1..Len(basedir.DataDirs) |-> Join(<<basedir.DataDirs[k], <<"applications">> >>)]
\* the paths tried in one directory that exist (os.Stat) and load (LoadFile)
LoadableAttempts(dir, desktopId) ==
    {path \in {Join(<<dir, <<desktopId>> >>), Join(<<dir, ReplaceHyphen[desktopId]>>)} :
        path \in DOMAIN desktopFiles /\ desktopFiles[path].ok}
\* desktop.LoadById over the directories: the path of a desktop file of the first directory
\* that has one, "" (<<>>) if none
RECURSIVE desktopLoadById(_, _)
desktopLoadById(desktopId, locations) ==
    IF locations = <<>> THEN <<>>
    ELSE IF LoadableAttempts(Head(locations), desktopId) # {}
         THEN CHOOSE path \in LoadableAttempts(Head(locations), desktopId) : TRUE
         ELSE desktopLoadById(desktopId, Tail(locations))
\* dfPath: if desktopIdToPathsMap == nil, desktop.LoadById(desktopId, nil), else the index
dfPath(desktopId) ==
    IF idPathsMap = NilIndex
    THEN desktopLoadById(desktopId, GetDesktopFileLocations)
    ELSE LoadById(desktopId)

DefaultDesktopId(desktopId, mimeType, res) ==
    IF dfPath(desktopId) = <<>> THEN res
    ELSE IF ~Contains(Get(associations, mimeType), desktopId) THEN res
    ELSE Put(res, mimeType, Append(Get(res, mimeType), desktopId))

RECURSIVE DefaultDesktopIds(_, _, _)
DefaultDesktopIds(desktopIds, mimeType, res) ==
    IF desktopIds = <<>> THEN res
    ELSE DefaultDesktopIds(Tail(desktopIds), mimeType, DefaultDesktopId(Head(desktopIds), mimeType, res))

\* for mimeType, desktopIds := range parsed.Default, the keys visited in the given order
RECURSIVE RangeDefault(_, _, _)
RangeDefault(default, order, res) ==
    IF order = <<>> THEN res
    ELSE RangeDefault(default, Tail(order), DefaultDesktopIds(default[Head(order)], Head(order), res))

(***************************************************************************)
(* GetPreferredApplications.                                               *)
(***************************************************************************)
RECURSIVE RemoveSeen(_, _)
RemoveSeen(input, seen) ==
    IF input = <<>> THEN <<>>
    ELSE IF Head(input) \in seen THEN RemoveSeen(Tail(input), seen)
    ELSE <<Head(input)>> \o RemoveSeen(Tail(input), seen \cup {Head(input)})

\* removeDuplicates that returns its input
KeepDuplicates(input) == input
removeDuplicates(input) == RemoveSeen(input, {})


\* the types of the defaults alone
RangeDefaultsAlone(order, assoc) == defaults
\* for mime, desktopIds := range defaults, the keys visited in the given order
RECURSIVE RangeDefaults(_, _)
RangeDefaults(order, assoc) ==
    IF order = <<>> THEN assoc
    ELSE RangeDefaults(Tail(order),
            IF Head(order) \notin DOMAIN assoc
            THEN Put(assoc, Head(order), defaults[Head(order)])
            ELSE Put(assoc, Head(order), removeDuplicates(defaults[Head(order)] \o assoc[Head(order)])))

(***************************************************************************)
(* The explored inputs: a list of locations, mimeapps.list files built     *)
(* from directives placed in the files of the list, and desktop files      *)
(* placed in directories together with the index that names them.          *)
(***************************************************************************)
LocationChoices ==
    { [Path |-> DirApps \o <<"/", "gnome-", "mimeapps.list">>, HasDesktopFiles |-> FALSE],
      [Path |-> DirApps \o <<"/", "mimeapps.list">>, HasDesktopFiles |-> TRUE],
      [Path |-> DirApps \o <<"/", "mimeapps.list">>, HasDesktopFiles |-> FALSE],
      [Path |-> DirSub \o <<"/", "mimeapps.list">>, HasDesktopFiles |-> TRUE] }
LocationLists == UNION {[1..n -> LocationChoices] : n \in 1..MaxLocations}
PathsOf(locations) == {locations[k].Path : k \in 1..Len(locations)}

AppLists == {<<a>> : a \in Ids}
PlacedDirectives(paths) == [path : paths, section : Sections, mimeType : Mimes, apps : AppLists]
\* "app1;app2;" as chunks
RECURSIVE JoinApps(_)
JoinApps(apps) == IF apps = <<>> THEN <<>> ELSE <<Head(apps), ";">> \o JoinApps(Tail(apps))
\* The lines of the file at path: each directive under the header of its section.
RECURSIVE LinesOf(_, _)
LinesOf(ds, path) ==
    IF ds = <<>> THEN <<>>
    ELSE (IF Head(ds).path = path
          THEN << <<Head(ds).section>>, <<Head(ds).mimeType, "=">> \o JoinApps(Head(ds).apps) >>
          ELSE <<>>) \o LinesOf(Tail(ds), path)
FilesOf(ds, paths) == [path \in paths |-> [status |-> "ok", lines |-> LinesOf(ds, path)]]

MimeTypeLists == {<<"text/html">>, <<"text/html", "text/plain">>, <<"text/html", "text/html">>}
DesktopFileChoices == {[ok |-> FALSE, MimeType |-> <<>>]} \cup [ok : {TRUE}, MimeType : MimeTypeLists]
DesktopFilePath(dir, desktopId) == dir \o <<"/", desktopId>>
PlacedManifests == [id : Ids, dir : ManifestDirs, file : DesktopFileChoices]
ManifestLists(n) ==
    {ms \in [1..n -> PlacedManifests] :
        \A p, q \in 1..n : (ms[p].id = ms[q].id /\ ms[p].dir = ms[q].dir) => p = q}
RECURSIVE PathsOfId(_, _)
PathsOfId(ms, desktopId) ==
    IF ms = <<>> THEN <<>>
    ELSE (IF Head(ms).id = desktopId THEN <<DesktopFilePath(Head(ms).dir, desktopId)>> ELSE <<>>)
         \o PathsOfId(Tail(ms), desktopId)
IndexOf(ms) == [desktopId \in {ms[k].id : k \in 1..Len(ms)} |-> PathsOfId(ms, desktopId)]
DesktopFilesOf(ms) ==
    [path \in {DesktopFilePath(ms[k].dir, ms[k].id) : k \in 1..Len(ms)} |->
        ms[CHOOSE k \in 1..Len(ms) : DesktopFilePath(ms[k].dir, ms[k].id) = path].file]
Min(a, b) == IF a <= b THEN a ELSE b

\* Nothing but the resolvers runs: the base directories are unset, GetLists and
\* Parse are not called.
NoBasedir == [ConfigHome |-> <<>>, ConfigDirs |-> <<>>, DataHome |-> <<>>, DataDirs |-> <<>>]
\* isSubPathAbs is not called and no Subclass is loaded.
MoreIdle ==
    /\ sub = <<>>
    /\ parent = <<>>
    /\ isSub = FALSE
    /\ readers = <<>>
    /\ dict = EmptyMap
    /\ heap = EmptyMap
    /\ query = <<>>
    /\ returned = <<>>
Idle ==
    /\ MoreIdle
    /\ firstDefaults = EmptyMap
    /\ firstFiles = EmptyMap
    /\ basedir = NoBasedir
    /\ desktop = <<>>
    /\ list = <<>>
    /\ reader = NoReader
    /\ sc = 0
    /\ status = addToNone
    /\ mimeApps = EmptyMimeApps

Init ==
    /\ \E locations \in LocationLists, nl \in 0..MaxLines :
       \E nm \in 0..Min(MaxManifests, MaxFacts - nl) :
       \E ds \in [1..nl -> PlacedDirectives(PathsOf(locations))], ms \in ManifestLists(nm) :
          /\ mimeappsLocations = locations
          /\ files = FilesOf(ds, PathsOf(locations))
          /\ idPathsMap = IndexOf(ms)
          /\ desktopFiles = DesktopFilesOf(ms)
    /\ pc = "index"
    /\ i = 0
    /\ parsed = EmptyMimeApps
    /\ desktopIdLowestIndex = [x \in {} |-> 0]
    /\ result = EmptyMap
    /\ blacklistMimeDesktop = [x \in {} |-> {}]
    /\ blacklistDesktopIds = {}
    /\ toAdd = EmptyMap
    /\ associations = EmptyMap
    /\ defaults = EmptyMap
    /\ run = 1
    /\ firstResult = EmptyMap
    /\ Idle

(***************************************************************************)
(* GetAssociations, one action per loop.                                   *)
(***************************************************************************)
\* for desktopId, paths := range idPathsMap: every iteration writes its own key
BuildLowestIndex ==
    /\ pc = "index"
    /\ desktopIdLowestIndex' = [desktopId \in DOMAIN idPathsMap |-> LowestPrecedence(idPathsMap[desktopId])]
    /\ pc' = "location"
    /\ UNCHANGED <<others, inputs, run, firstResult, i, parsed, result, blacklistMimeDesktop, blacklistDesktopIds, toAdd,
                   associations, defaults>>

\* the head of the loop over mimeappsLocations: a $desktop-mimeapps.list is skipped
SkipQualified ==
    /\ pc = "location" /\ i < NumLocations
    /\ IsQualified(Location(i).Path)
    /\ i' = i + 1
    /\ UNCHANGED <<others, inputs, run, firstResult, pc, parsed, desktopIdLowestIndex, result, blacklistMimeDesktop,
                   blacklistDesktopIds, toAdd, associations, defaults>>

ParseLocation ==
    /\ pc = "location" /\ i < NumLocations
    /\ ~IsQualified(Location(i).Path)
    /\ parsed' = ParseFile(files[Location(i).Path])
    /\ pc' = "added"
    /\ UNCHANGED <<others, inputs, run, firstResult, i, desktopIdLowestIndex, result, blacklistMimeDesktop,
                   blacklistDesktopIds, toAdd, associations, defaults>>

ProcessAdded ==
    /\ pc = "added"
    /\ \E order \in Orders(DOMAIN parsed.Added) :
         LET st == RangeAdded(parsed.Added, order,
                      [result |-> result, blacklistMimeDesktop |-> blacklistMimeDesktop])
         IN /\ result' = st.result
            /\ blacklistMimeDesktop' = st.blacklistMimeDesktop
    /\ pc' = "removed"
    /\ UNCHANGED <<others, inputs, run, firstResult, i, parsed, desktopIdLowestIndex, blacklistDesktopIds, toAdd,
                   associations, defaults>>

ProcessRemoved ==
    /\ pc = "removed"
    /\ \E order \in Orders(DOMAIN parsed.Removed) :
         LET st == RangeRemoved(parsed.Removed, order,
                      [result |-> result, blacklistMimeDesktop |-> blacklistMimeDesktop])
         IN /\ result' = st.result
            /\ blacklistMimeDesktop' = st.blacklistMimeDesktop
    /\ IF Location(i).HasDesktopFiles
       THEN pc' = "scan" /\ i' = i
       ELSE pc' = "location" /\ i' = i + 1
    /\ UNCHANGED <<others, inputs, run, firstResult, parsed, desktopIdLowestIndex, blacklistDesktopIds, toAdd,
                   associations, defaults>>

ScanDesktopFiles ==
    /\ pc = "scan"
    /\ \E order \in Orders(DOMAIN idPathsMap) :
         LET st == RangeIdPathsMap(order, Dir(Location(i).Path),
                      [blacklistDesktopIds |-> blacklistDesktopIds,
                       blacklistMimeDesktop |-> blacklistMimeDesktop,
                       toAdd |-> EmptyMap])
         IN /\ blacklistDesktopIds' = st.blacklistDesktopIds
            /\ blacklistMimeDesktop' = st.blacklistMimeDesktop
            /\ toAdd' = st.toAdd
    /\ pc' = "append"
    /\ UNCHANGED <<others, inputs, run, firstResult, i, parsed, desktopIdLowestIndex, result, associations, defaults>>

AppendToAdd ==
    /\ pc = "append"
    /\ \E order \in Orders(DOMAIN toAdd) : result' = RangeToAdd(order, result)
    /\ pc' = "location"
    /\ i' = i + 1
    /\ UNCHANGED <<others, inputs, run, firstResult, parsed, desktopIdLowestIndex, blacklistMimeDesktop, blacklistDesktopIds,
                   toAdd, associations, defaults>>

\* return result; GetPreferredApplications goes on with GetDefaults
ReturnAssociations ==
    /\ pc = "location" /\ i = NumLocations
    /\ associations' = result
    /\ pc' = "defaults"
    /\ i' = 0
    /\ UNCHANGED <<others, inputs, run, firstResult, parsed, desktopIdLowestIndex, result, blacklistMimeDesktop,
                   blacklistDesktopIds, toAdd, defaults>>

(***************************************************************************)
(* GetDefaults, one action per location, and the merge.                    *)
(***************************************************************************)
DefaultsOfLocation ==
    /\ pc = "defaults" /\ i < NumLocations
    /\ LET file == files[Location(i).Path] IN
       IF file.status # "ok"
       THEN UNCHANGED <<parsed, defaults>>
       ELSE /\ parsed' = Parse(file.lines)
            /\ \E order \in Orders(DOMAIN parsed'.Default) :
                 defaults' = RangeDefault(parsed'.Default, order, defaults)
    /\ i' = i + 1
    /\ UNCHANGED <<others, inputs, run, firstResult, pc, desktopIdLowestIndex, result, blacklistMimeDesktop,
                   blacklistDesktopIds, toAdd, associations>>

ReturnDefaults ==
    /\ pc = "defaults" /\ i = NumLocations
    /\ pc' = "merge"
    /\ UNCHANGED <<others, inputs, run, firstResult, i, parsed, desktopIdLowestIndex, result, blacklistMimeDesktop,
                   blacklistDesktopIds, toAdd, associations, defaults>>

MergeDefaults ==
    /\ pc = "merge"
    /\ \E order \in Orders(DOMAIN defaults) : associations' = RangeDefaults(order, associations)
    /\ pc' = "done"
    /\ UNCHANGED <<others, inputs, run, firstResult, i, parsed, desktopIdLowestIndex, result, blacklistMimeDesktop,
                   blacklistDesktopIds, toAdd, defaults>>

(***************************************************************************)
(* A second call of GetAssociations on the same inputs.                    *)
(***************************************************************************)
CallAgain ==
    /\ pc = "location" /\ i = NumLocations
    /\ run = 1
    /\ run' = 2
    /\ firstResult' = result
    /\ pc' = "index"
    /\ i' = 0
    /\ parsed' = EmptyMimeApps
    /\ desktopIdLowestIndex' = [x \in {} |-> 0]
    /\ result' = EmptyMap
    /\ blacklistMimeDesktop' = [x \in {} |-> {}]
    /\ blacklistDesktopIds' = {}
    /\ toAdd' = EmptyMap
    /\ UNCHANGED <<others, inputs, associations, defaults>>

Next ==
    \/ BuildLowestIndex
    \/ SkipQualified
    \/ ParseLocation
    \/ ProcessAdded
    \/ ProcessRemoved
    \/ ScanDesktopFiles
    \/ AppendToAdd
    \/ ReturnAssociations
    \/ DefaultsOfLocation
    \/ ReturnDefaults
    \/ MergeDefaults

Spec == Init /\ [][Next]_vars

\* GetAssociations called twice on the same inputs
NextTwice ==
    \/ BuildLowestIndex
    \/ SkipQualified
    \/ ParseLocation
    \/ ProcessAdded
    \/ ProcessRemoved
    \/ ScanDesktopFiles
    \/ AppendToAdd
    \/ CallAgain

SpecTwice == Init /\ [][NextTwice]_vars

(***************************************************************************)
(* Files that fail.  A file of the list is ok, missing (os.ErrNotExist) or *)
(* in error: it cannot be opened, or the scanner fails while reading it;   *)
(* the lines of a file in error are the lines read before the failure.     *)
(* The resolvers are called a second time on the same inputs with certain  *)
(* files replaced by empty files.                                          *)
(***************************************************************************)
MaxEmptiedFacts == 2
FileStatuses == {"ok", "missing", "error"}
EmptyFile == [status |-> "ok", lines |-> <<>>]
FailingFilesOf(ds, paths, statusOf) ==
    [path \in paths |-> [status |-> statusOf[path],
                         lines |-> IF statusOf[path] = "missing" THEN <<>> ELSE LinesOf(ds, path)]]

InitEmptied ==
    /\ \E locations \in LocationLists, nl \in 0..MaxEmptiedFacts :
       \E nm \in 0..(MaxEmptiedFacts - nl) :
       \E ds \in [1..nl -> PlacedDirectives(PathsOf(locations))], ms \in ManifestLists(nm) :
       \E statusOf \in [PathsOf(locations) -> FileStatuses] :
          /\ mimeappsLocations = locations
          /\ files = FailingFilesOf(ds, PathsOf(locations), statusOf)
          /\ idPathsMap = IndexOf(ms)
          /\ desktopFiles = DesktopFilesOf(ms)
    /\ pc = "index"
    /\ i = 0
    /\ parsed = EmptyMimeApps
    /\ desktopIdLowestIndex = [x \in {} |-> 0]
    /\ result = EmptyMap
    /\ blacklistMimeDesktop = [x \in {} |-> {}]
    /\ blacklistDesktopIds = {}
    /\ toAdd = EmptyMap
    /\ associations = EmptyMap
    /\ defaults = EmptyMap
    /\ run = 1
    /\ firstResult = EmptyMap
    /\ Idle

\* the locals of GetAssociations and GetDefaults at the entry of a new call
EnterAgain ==
    /\ run = 1
    /\ run' = 2
    /\ firstResult' = result
    /\ firstDefaults' = defaults
    /\ firstFiles' = files
    /\ pc' = "index"
    /\ i' = 0
    /\ parsed' = EmptyMimeApps
    /\ desktopIdLowestIndex' = [x \in {} |-> 0]
    /\ result' = EmptyMap
    /\ blacklistMimeDesktop' = [x \in {} |-> {}]
    /\ blacklistDesktopIds' = {}
    /\ toAdd' = EmptyMap
    /\ associations' = EmptyMap
    /\ defaults' = EmptyMap

SomeFileFails == \E path \in DOMAIN files : files[path].status # "ok"
\* GetAssociations and GetDefaults have returned; they are called again with every
\* failing file replaced by an empty file
CallWithFailedEmptied ==
    /\ pc = "merge"
    /\ SomeFileFails
    /\ EnterAgain
    /\ files' = [path \in DOMAIN files |-> IF files[path].status # "ok" THEN EmptyFile ELSE files[path]]
    /\ UNCHANGED <<mimeappsLocations, idPathsMap, desktopFiles,
                   basedir, desktop, list, reader, sc, status, mimeApps, more>>

NextFailSoft ==
    \/ BuildLowestIndex
    \/ SkipQualified
    \/ ParseLocation
    \/ ProcessAdded
    \/ ProcessRemoved
    \/ ScanDesktopFiles
    \/ AppendToAdd
    \/ ReturnAssociations
    \/ DefaultsOfLocation
    \/ ReturnDefaults
    \/ CallWithFailedEmptied

SpecFailSoft == InitEmptied /\ [][NextFailSoft]_vars

SomeFileQualified == \E k \in 1..Len(mimeappsLocations) : Base(mimeappsLocations[k].Path) # MimeappsList
\* GetAssociations has returned; it is called again with every file whose base name
\* is not mimeapps.list replaced by an empty file
CallWithQualifiedEmptied ==
    /\ pc = "location" /\ i = NumLocations
    /\ SomeFileQualified
    /\ EnterAgain
    /\ files' = [path \in DOMAIN files |-> IF Base(path) # MimeappsList THEN EmptyFile ELSE files[path]]
    /\ UNCHANGED <<mimeappsLocations, idPathsMap, desktopFiles,
                   basedir, desktop, list, reader, sc, status, mimeApps, more>>

NextQualified ==
    \/ BuildLowestIndex
    \/ SkipQualified
    \/ ParseLocation
    \/ ProcessAdded
    \/ ProcessRemoved
    \/ ScanDesktopFiles
    \/ AppendToAdd
    \/ CallWithQualifiedEmptied

SpecQualified == InitEmptied /\ [][NextQualified]_vars

(***************************************************************************)
(* GetDefaults called on its own: the caller passes any association table. *)
(* The files hold [Default Applications] lines of one or two applications. *)
(***************************************************************************)
MaxDefaultLines == 2
MaxDefaultApps == 2
DefaultsLocationChoices ==
    {c \in LocationChoices : Dir(c.Path) = DirApps /\ (c.HasDesktopFiles <=> Base(c.Path) = MimeappsList)}
DefaultsLocationLists == UNION {[1..n -> DefaultsLocationChoices] : n \in 1..MaxLocations}
DefaultAppLists == UNION {[1..n -> Ids] : n \in 1..MaxDefaultApps}
PlacedDefaults(paths) ==
    [path : paths, section : {"[Default Applications]"}, mimeType : Mimes, apps : DefaultAppLists]
AssociationTables == [Mimes -> {<<>>, <<"bar.desktop">>, <<"bar.desktop", "foo.desktop">>}]
DefaultsManifests == [id : Ids, dir : {DirApps}, file : {f \in DesktopFileChoices : f.MimeType \in {<<>>, <<"text/html">>}}]
DefaultsManifestLists ==
    {ms \in UNION {[1..n -> DefaultsManifests] : n \in 0..MaxManifests} :
        \A p, q \in 1..Len(ms) : p < q => Rank(ms[p].id) < Rank(ms[q].id)}

InitDefaults ==
    /\ \E locations \in DefaultsLocationLists, nl \in 0..MaxDefaultLines :
       \E ds \in [1..nl -> PlacedDefaults(PathsOf(locations))], ms \in DefaultsManifestLists :
          /\ mimeappsLocations = locations
          /\ files = FilesOf(ds, PathsOf(locations))
          /\ idPathsMap = IndexOf(ms)
          /\ desktopFiles = DesktopFilesOf(ms)
    /\ associations \in AssociationTables
    /\ pc = "defaults"
    /\ i = 0
    /\ parsed = EmptyMimeApps
    /\ desktopIdLowestIndex = [x \in {} |-> 0]
    /\ result = EmptyMap
    /\ blacklistMimeDesktop = [x \in {} |-> {}]
    /\ blacklistDesktopIds = {}
    /\ toAdd = EmptyMap
    /\ defaults = EmptyMap
    /\ run = 1
    /\ firstResult = EmptyMap
    /\ Idle

NextDefaults ==
    \/ DefaultsOfLocation
    \/ ReturnDefaults

SpecDefaults == InitDefaults /\ [][NextDefaults]_vars

(***************************************************************************)
(* GetLists.  A base directory is an absolute path, with or without a      *)
(* trailing separator; the desktop hint is a sequence of chunks of letters *)
(* whose lower case is given by LowerOf.                                   *)
(***************************************************************************)
MaxBaseDirs == 2
LowerOf == [x \in {"GNOME", "gnome", "Kde"} |-> IF x = "Kde" THEN "kde" ELSE "gnome"]
DesktopHints == {<<>>, <<"gnome">>, <<"GNOME">>, <<"Kde">>}
ConfigDirChoices == {<<"/", "etc", "/", "xdg">>, <<"/", "opt", "/">>}
DataDirChoices == {<<"/", "usr", "/", "share", "/">>, <<"/", "srv">>}
ConfigHomeChoices == {<<"/", "home", "/", ".config">>}
DataHomeChoices == {<<"/", "home", "/", ".local">>}

\* the lower case of the letters is kept as it is
KeepCase(s) == s
\* strings.ToLower
ToLower(s) == [k \in 1..Len(s) |-> LowerOf[s[k]]]

addMimeappsList(lst, envValue, desk, subDir, hasDesktopFiles) ==
    LET joined == IF subDir # <<>> THEN Join(<<envValue, subDir>>) ELSE envValue
        withDesktop ==
            IF desk # <<>>
            THEN Append(lst, [Path |-> Join(<<joined, subDir, desk \o <<"-mimeapps.list">> >>),
                              HasDesktopFiles |-> hasDesktopFiles])
            ELSE lst
    IN Append(withDesktop, [Path |-> Join(<<joined, subDir, <<"mimeapps.list">> >>),
                            HasDesktopFiles |-> hasDesktopFiles])

InitLists ==
    /\ desktop \in DesktopHints
    /\ \E ch \in ConfigHomeChoices, dh \in DataHomeChoices :
       \E cds \in UNION {[1..n -> ConfigDirChoices] : n \in 1..MaxBaseDirs} :
       \E dds \in UNION {[1..n -> DataDirChoices] : n \in 1..MaxBaseDirs} :
          basedir = [ConfigHome |-> ch, ConfigDirs |-> cds, DataHome |-> dh, DataDirs |-> dds]
    /\ list = <<>>
    /\ pc = "configHome"
    /\ i = 0
    /\ mimeappsLocations = <<>>
    /\ files = EmptyMap
    /\ idPathsMap = EmptyMap
    /\ desktopFiles = EmptyMap
    /\ parsed = EmptyMimeApps
    /\ desktopIdLowestIndex = [x \in {} |-> 0]
    /\ result = EmptyMap
    /\ blacklistMimeDesktop = [x \in {} |-> {}]
    /\ blacklistDesktopIds = {}
    /\ toAdd = EmptyMap
    /\ associations = EmptyMap
    /\ defaults = EmptyMap
    /\ run = 1
    /\ firstResult = EmptyMap
    /\ firstDefaults = EmptyMap
    /\ firstFiles = EmptyMap
    /\ reader = NoReader
    /\ sc = 0
    /\ status = addToNone
    /\ mimeApps = EmptyMimeApps
    /\ MoreIdle

\* what GetLists leaves alone
ListsFrame ==
    UNCHANGED <<inputs, parsed, desktopIdLowestIndex, result, blacklistMimeDesktop, blacklistDesktopIds,
                toAdd, associations, defaults, run, firstResult, firstDefaults, firstFiles,
                basedir, desktop, reader, sc, status, mimeApps, more>>

AddConfigHome ==
    /\ pc = "configHome"
    /\ list' = addMimeappsList(list, basedir.ConfigHome, ToLower(desktop), <<>>, FALSE)
    /\ pc' = "configDirs"
    /\ i' = 0
    /\ ListsFrame

\* addMimeappsLists over basedir.ConfigDirs, one directory
AddConfigDir ==
    /\ pc = "configDirs" /\ i < Len(basedir.ConfigDirs)
    /\ list' = addMimeappsList(list, basedir.ConfigDirs[i + 1], ToLower(desktop), <<>>, FALSE)
    /\ i' = i + 1
    /\ pc' = pc
    /\ ListsFrame

AddDataHome ==
    /\ pc = "configDirs" /\ i = Len(basedir.ConfigDirs)
    /\ list' = addMimeappsList(list, basedir.DataHome, ToLower(desktop), <<"applications">>, TRUE)
    /\ pc' = "dataDirs"
    /\ i' = 0
    /\ ListsFrame

\* addMimeappsLists over basedir.DataDirs, one directory
AddDataDir ==
    /\ pc = "dataDirs" /\ i < Len(basedir.DataDirs)
    /\ list' = addMimeappsList(list, basedir.DataDirs[i + 1], ToLower(desktop), <<"applications">>, TRUE)
    /\ i' = i + 1
    /\ pc' = pc
    /\ ListsFrame

ReturnLists ==
    /\ pc = "dataDirs" /\ i = Len(basedir.DataDirs)
    /\ pc' = "listed"
    /\ UNCHANGED <<list, i>>
    /\ ListsFrame

NextLists ==
    \/ AddConfigHome
    \/ AddConfigDir
    \/ AddDataHome
    \/ AddDataDir
    \/ ReturnLists

SpecLists == InitLists /\ [][NextLists]_vars

(***************************************************************************)
(* GetDefaults called without an index (nil): the desktop files are looked *)
(* up on the filesystem.  After the call the base directories are set      *)
(* anew (basedir.Reinit after a change of the environment) and GetDefaults *)
(* is called again with the same arguments on the same filesystem.         *)
(***************************************************************************)
MaxProbeLines == 1
ProbeBasedirs ==
    [ConfigHome : ConfigHomeChoices, ConfigDirs : {<<>>},
     DataHome : {<<"/">>} \cup DataHomeChoices, DataDirs : {<<>>, << <<"/">> >>}]

InitProbe ==
    /\ \E locations \in DefaultsLocationLists, nl \in 0..MaxProbeLines :
       \E ds \in [1..nl -> PlacedDefaults(PathsOf(locations))], ms \in DefaultsManifestLists :
          /\ mimeappsLocations = locations
          /\ files = FilesOf(ds, PathsOf(locations))
          /\ desktopFiles = DesktopFilesOf(ms)
    /\ idPathsMap = NilIndex
    /\ associations \in AssociationTables
    /\ basedir \in ProbeBasedirs
    /\ pc = "defaults"
    /\ i = 0
    /\ parsed = EmptyMimeApps
    /\ desktopIdLowestIndex = [x \in {} |-> 0]
    /\ result = EmptyMap
    /\ blacklistMimeDesktop = [x \in {} |-> {}]
    /\ blacklistDesktopIds = {}
    /\ toAdd = EmptyMap
    /\ defaults = EmptyMap
    /\ run = 1
    /\ firstResult = EmptyMap
    /\ firstDefaults = EmptyMap
    /\ firstFiles = EmptyMap
    /\ desktop = <<>>
    /\ list = <<>>
    /\ reader = NoReader
    /\ sc = 0
    /\ status = addToNone
    /\ mimeApps = EmptyMimeApps
    /\ MoreIdle

\* basedir.Reinit with other values of the environment, then GetDefaults again
ReinitAndCallAgain ==
    /\ pc = "merge"
    /\ run = 1
    /\ run' = 2
    /\ basedir' \in ProbeBasedirs
    /\ firstDefaults' = defaults
    /\ defaults' = EmptyMap
    /\ parsed' = EmptyMimeApps
    /\ pc' = "defaults"
    /\ i' = 0
    /\ UNCHANGED <<inputs, desktopIdLowestIndex, result, blacklistMimeDesktop, blacklistDesktopIds, toAdd,
                   associations, firstResult, firstFiles, desktop, list, reader, sc, status, mimeApps, more>>

NextProbe ==
    \/ DefaultsOfLocation
    \/ ReturnDefaults
    \/ ReinitAndCallAgain

SpecProbe == InitProbe /\ [][NextProbe]_vars

(***************************************************************************)
(* Parse called on a reader, one action per line that the scanner yields.  *)
(***************************************************************************)
MaxParseLines == 4
Headers == Sections \cup {"[Other]"}
ParseLineChoices ==
    {<<h>> : h \in Headers}
    \cup {<<>>, <<"text/plain">>}
    \cup {<<mime, "=", "bar.desktop", ";">> : mime \in Mimes}
    \cup {<<mime, "=", "foo.desktop", ";", "bar.desktop">> : mime \in Mimes}

InitParse ==
    /\ \E lines \in UNION {[1..n -> ParseLineChoices] : n \in 0..MaxParseLines}, err \in BOOLEAN :
          reader = [lines |-> lines, err |-> err]
    /\ sc = 0
    /\ status = addToNone
    /\ mimeApps = EmptyMimeApps
    /\ pc = "parse"
    /\ i = 0
    /\ mimeappsLocations = <<>>
    /\ files = EmptyMap
    /\ idPathsMap = EmptyMap
    /\ desktopFiles = EmptyMap
    /\ parsed = EmptyMimeApps
    /\ desktopIdLowestIndex = [x \in {} |-> 0]
    /\ result = EmptyMap
    /\ blacklistMimeDesktop = [x \in {} |-> {}]
    /\ blacklistDesktopIds = {}
    /\ toAdd = EmptyMap
    /\ associations = EmptyMap
    /\ defaults = EmptyMap
    /\ run = 1
    /\ firstResult = EmptyMap
    /\ firstDefaults = EmptyMap
    /\ firstFiles = EmptyMap
    /\ basedir = NoBasedir
    /\ desktop = <<>>
    /\ list = <<>>
    /\ MoreIdle

\* what Parse leaves alone
ParseFrame ==
    UNCHANGED <<inputs, i, parsed, desktopIdLowestIndex, result, blacklistMimeDesktop, blacklistDesktopIds,
                toAdd, associations, defaults, run, firstResult, firstDefaults, firstFiles,
                basedir, desktop, list, reader, more>>

\* for sc.Scan(): one line
ScanLine ==
    /\ pc = "parse" /\ sc < Len(reader.lines)
    /\ LET acc == ParseLine(reader.lines[sc + 1], [status |-> status, result |-> mimeApps])
       IN /\ status' = acc.status
          /\ mimeApps' = acc.result
    /\ sc' = sc + 1
    /\ pc' = pc
    /\ ParseFrame

\* the scanner is at its end: MimeApps{} with sc.Err(), the result otherwise
ReturnParse ==
    /\ pc = "parse" /\ sc = Len(reader.lines)
    /\ mimeApps' = IF reader.err THEN EmptyMimeApps ELSE mimeApps
    /\ pc' = "parsed"
    /\ UNCHANGED <<sc, status>>
    /\ ParseFrame

NextParse ==
    \/ ScanLine
    \/ ReturnParse

SpecParse == InitParse /\ [][NextParse]_vars

(***************************************************************************)
(* isSubPathAbs called on two clean absolute paths.  A path is a sequence  *)
(* of characters here, so that one component can be the beginning of       *)
(* another: d, d1, d2.                                                     *)
(***************************************************************************)
MaxComponents == 2
PathComponents == {<<"d">>, <<"d", "1">>, <<"d", "2">>, <<"t">>}
ComponentLists == UNION {[1..n -> PathComponents] : n \in 0..MaxComponents}
\* the clean absolute path of the components: "/" for none, "/" before each component otherwise
RECURSIVE PathOf(_)
PathOf(components) ==
    IF components = <<>> THEN <<"/">>
    ELSE IF Len(components) = 1 THEN <<"/">> \o components[1]
    ELSE <<"/">> \o components[1] \o PathOf(Tail(components))

InitSubPath ==
    /\ \E s, p \in ComponentLists :
        /\ sub = PathOf(s)
        /\ parent = PathOf(p)
    /\ isSub = FALSE
    /\ pc = "call"
    /\ readers = <<>>
    /\ dict = EmptyMap
    /\ heap = EmptyMap
    /\ query = <<>>
    /\ returned = <<>>
    /\ reader = NoReader
    /\ sc = 0
    /\ status = addToNone
    /\ mimeApps = EmptyMimeApps
    /\ i = 0
    /\ mimeappsLocations = <<>>
    /\ files = EmptyMap
    /\ idPathsMap = EmptyMap
    /\ desktopFiles = EmptyMap
    /\ parsed = EmptyMimeApps
    /\ desktopIdLowestIndex = [x \in {} |-> 0]
    /\ result = EmptyMap
    /\ blacklistMimeDesktop = [x \in {} |-> {}]
    /\ blacklistDesktopIds = {}
    /\ toAdd = EmptyMap
    /\ associations = EmptyMap
    /\ defaults = EmptyMap
    /\ run = 1
    /\ firstResult = EmptyMap
    /\ firstDefaults = EmptyMap
    /\ firstFiles = EmptyMap
    /\ basedir = NoBasedir
    /\ desktop = <<>>
    /\ list = <<>>

\* isSubPathAbs(sub, parent)
CallIsSubPathAbs ==
    /\ pc = "call"
    /\ isSub' = isSubPathAbs(sub, parent)
    /\ pc' = "called"
    /\ UNCHANGED <<inputs, i, parsed, desktopIdLowestIndex, result, blacklistMimeDesktop, blacklistDesktopIds,
                   toAdd, associations, defaults, run, firstResult, firstDefaults, firstFiles,
                   basedir, desktop, list, reader, sc, status, mimeApps,
                   sub, parent, readers, dict, heap, query, returned>>

NextSubPath == CallIsSubPathAbs

SpecSubPath == InitSubPath /\ [][NextSubPath]_vars

(***************************************************************************)
(* sharedmimeinfo.Subclass.  A MIME type is the sequence media, "/",       *)
(* subtype.  A slice is a header (array, offset, length) over an array of  *)
(* the heap, whose length is the capacity; array 0 is the nil slice.       *)
(* readers is the sequence of the lines "specific broad" that the readers  *)
(* yield, one reader after the other.                                      *)
(***************************************************************************)
MaxSubclassLines == 3
MaxSubclassCalls == 2
mimeTextPlain == <<"text", "/", "plain">>
mimeOctet == <<"application", "/", "octet-stream">>
TextFoo == <<"text", "/", "foo">>
ApplicationXml == <<"application", "/", "xml">>
InodeDirectory == <<"inode", "/", "directory">>
SchemeHandlerHttp == <<"x-scheme-handler", "/", "http">>
SubclassLineTypes == {TextFoo, ApplicationXml, mimeTextPlain, InodeDirectory}
SubclassQueries == SubclassLineTypes \cup {mimeOctet, SchemeHandlerHttp}
SubclassLines == [specific : SubclassLineTypes, broad : SubclassLineTypes]
SubclassReaders == UNION {[1..n -> SubclassLines] : n \in 0..MaxSubclassLines}

NilSlice == [arr |-> 0, off |-> 0, len |-> 0]
\* cap(s)
Cap(h, s) == IF s.arr = 0 THEN 0 ELSE Len(h[s.arr]) - s.off
\* the elements of the slice
Contents(h, s) == [k \in 1..s.len |-> h[s.arr][s.off + k]]
\* s[1:]
Rest(s) == [s EXCEPT !.off = @ + 1, !.len = @ - 1]
\* the capacity of the array that append allocates when the slice is full (runtime.growslice,
\* capacities below 256; the size classes hold every number of strings up to 16)
GrowCap(old, needed) == IF needed > 2 * old THEN needed ELSE 2 * old
\* append(s, elems...): in place when the capacity suffices, into a new array otherwise
AppendSlice(h, s, elems) ==
    IF elems = <<>> THEN [heap |-> h, slice |-> s]
    ELSE IF s.len + Len(elems) <= Cap(h, s)
    THEN [heap |-> [h EXCEPT ![s.arr] =
                        [c \in 1..Len(@) |->
                            IF c > s.off + s.len /\ c <= s.off + s.len + Len(elems)
                            THEN elems[c - s.off - s.len] ELSE @[c]]],
          slice |-> [s EXCEPT !.len = @ + Len(elems)]]
    ELSE [heap |-> Append(h, [c \in 1..GrowCap(Cap(h, s), s.len + Len(elems)) |->
                                IF c <= s.len THEN Contents(h, s)[c]
                                ELSE IF c <= s.len + Len(elems) THEN elems[c - s.len]
                                ELSE <<>>]),
          slice |-> [arr |-> Len(h) + 1, off |-> 0, len |-> s.len + Len(elems)]]
\* s.dict[mime]: the nil slice for a type without entry
Lookup(d, mime) == IF mime \in DOMAIN d THEN d[mime] ELSE NilSlice

\* LoadFromReaders: one line
LoadLine(line, st) ==
    IF line.specific \in DOMAIN st.dict
    THEN IF Contains(Contents(st.heap, st.dict[line.specific]), line.broad) THEN st
         ELSE LET a == AppendSlice(st.heap, st.dict[line.specific], <<line.broad>>)
              IN [dict |-> Put(st.dict, line.specific, a.slice), heap |-> a.heap]
    ELSE [dict |-> Put(st.dict, line.specific, [arr |-> Len(st.heap) + 1, off |-> 0, len |-> 1]),
          heap |-> Append(st.heap, <<line.broad>>)]
RECURSIVE LoadLines(_, _)
LoadLines(lines, st) ==
    IF lines = <<>> THEN st ELSE LoadLines(Tail(lines), LoadLine(Head(lines), st))
LoadFromReaders(lines) == LoadLines(lines, [dict |-> EmptyMap, heap |-> <<>>])

\* BroaderOnce(mime)
BroaderOnce(d, h, mime) ==
    IF Lookup(d, mime).len > 0 THEN Contents(h, Lookup(d, mime))
    ELSE IF mime = mimeOctet THEN <<>>
    ELSE IF mime = mimeTextPlain THEN <<mimeOctet>>
    ELSE IF HasPrefix(mime, <<"text", "/">>) THEN <<mimeTextPlain>>
    ELSE IF ~HasPrefix(mime, <<"inode", "/">>) THEN <<mimeOctet>>
    ELSE <<>>

\* BroaderDfs: for len(toVisit) > 0
RECURSIVE DfsLoop(_, _, _, _, _)
DfsLoop(d, h, toVisit, visited, res) ==
    IF toVisit.len = 0 THEN [heap |-> h, visited |-> visited, result |-> res]
    ELSE LET broad == h[toVisit.arr][toVisit.off + 1]
             broader == Lookup(d, broad)
         IN IF broad \in visited THEN DfsLoop(d, h, Rest(toVisit), visited, res)
            ELSE IF broader.len = 0
            THEN DfsLoop(d, h, Rest(toVisit), visited \cup {broad}, Append(res, broad))
            ELSE IF broader.len = 1
            \* toVisit[0] = broader[0]: a write into the array behind toVisit
            THEN DfsLoop(d, [h EXCEPT ![toVisit.arr][toVisit.off + 1] = h[broader.arr][broader.off + 1]],
                         toVisit, visited \cup {broad}, Append(res, broad))
            \* toVisit = append(broader, toVisit[1:]...)
            ELSE LET a == AppendSlice(h, broader, Contents(h, Rest(toVisit)))
                 IN DfsLoop(d, a.heap, a.slice, visited \cup {broad}, Append(res, broad))
\* text/plain after a result that holds a text type, visited or not
WithTextPlainAgain(visited, res) ==
    IF \E k \in 1..Len(res) : HasPrefix(res[k], <<"text", "/">>) THEN Append(res, mimeTextPlain) ELSE res
\* BroaderDfs: text/plain after a result that holds a text type
WithTextPlain(visited, res) ==
    IF mimeTextPlain \notin visited /\ \E k \in 1..Len(res) : HasPrefix(res[k], <<"text", "/">>)
    THEN Append(res, mimeTextPlain) ELSE res
\* BroaderDfs: application/octet-stream after a result that holds a type that is no inode type
WithOctet(visited, res) ==
    IF mimeOctet \notin visited /\ \E k \in 1..Len(res) : ~HasPrefix(res[k], <<"inode", "/">>)
    THEN Append(res, mimeOctet) ELSE res
\* BroaderDfs(mime): the heap after the call and the list it returns
BroaderDfs(d, h, mime) ==
    LET loop == DfsLoop(d, h, Lookup(d, mime), {}, <<>>)
    IN [heap |-> loop.heap, result |-> WithOctet(loop.visited, WithTextPlain(loop.visited, loop.result))]

InitSubclass ==
    /\ readers \in SubclassReaders
    /\ dict = LoadFromReaders(readers).dict
    /\ heap = LoadFromReaders(readers).heap
    /\ query = <<>>
    /\ returned = <<>>
    /\ pc = "loaded"
    /\ run = 1
    /\ sub = <<>>
    /\ parent = <<>>
    /\ isSub = FALSE
    /\ reader = NoReader
    /\ sc = 0
    /\ status = addToNone
    /\ mimeApps = EmptyMimeApps
    /\ i = 0
    /\ mimeappsLocations = <<>>
    /\ files = EmptyMap
    /\ idPathsMap = EmptyMap
    /\ desktopFiles = EmptyMap
    /\ parsed = EmptyMimeApps
    /\ desktopIdLowestIndex = [x \in {} |-> 0]
    /\ result = EmptyMap
    /\ blacklistMimeDesktop = [x \in {} |-> {}]
    /\ blacklistDesktopIds = {}
    /\ toAdd = EmptyMap
    /\ associations = EmptyMap
    /\ defaults = EmptyMap
    /\ firstResult = EmptyMap
    /\ firstDefaults = EmptyMap
    /\ firstFiles = EmptyMap
    /\ basedir = NoBasedir
    /\ desktop = <<>>
    /\ list = <<>>

\* what a query of the Subclass leaves alone
SubclassFrame ==
    UNCHANGED <<inputs, i, parsed, desktopIdLowestIndex, result, blacklistMimeDesktop, blacklistDesktopIds,
                toAdd, associations, defaults, firstResult, firstDefaults, firstFiles,
                basedir, desktop, list, reader, sc, status, mimeApps,
                sub, parent, isSub, readers, dict>>

\* s.BroaderDfs(mime)
CallBroaderDfs ==
    /\ run <= MaxSubclassCalls
    /\ \E mime \in SubclassQueries :
        /\ query' = mime
        /\ returned' = BroaderDfs(dict, heap, mime).result
        /\ heap' = BroaderDfs(dict, heap, mime).heap
    /\ pc' = "BroaderDfs"
    /\ run' = run + 1
    /\ SubclassFrame

\* s.BroaderOnce(mime)
CallBroaderOnce ==
    /\ run <= MaxSubclassCalls
    /\ \E mime \in SubclassQueries :
        /\ query' = mime
        /\ returned' = BroaderOnce(dict, heap, mime)
    /\ pc' = "BroaderOnce"
    /\ run' = run + 1
    /\ UNCHANGED heap
    /\ SubclassFrame

NextSubclass ==
    \/ CallBroaderDfs
    \/ CallBroaderOnce

SpecSubclass == InitSubclass /\ [][NextSubclass]_vars

(***************************************************************************)
(* Vocabulary of the properties.                                           *)
(***************************************************************************)
LocationIndices == 0..(NumLocations - 1)
\* GetAssociations has returned: result is the returned table
Returned == pc \in {"defaults", "merge", "done"}
Unqualified(k) == Base(Location(k).Path) = MimeappsList
DirectivesAt(k) == ParseFile(files[Location(k).Path])
AddedAt(k, mime, desktopId) == Contains(Get(DirectivesAt(k).Added, mime), desktopId)
RemovedAt(k, mime, desktopId) == Contains(Get(DirectivesAt(k).Removed, mime), desktopId)
DefaultAt(k, mime, desktopId) == Contains(Get(DirectivesAt(k).Default, mime), desktopId)
InTable(table, mime, desktopId) == Contains(Get(table, mime), desktopId)
\* the manifest paths of an id that lie under the directory of location k
HasPathUnder(desktopId, k) ==
    \E p \in 1..Len(Get(idPathsMap, desktopId)) : isSubPathAbs(idPathsMap[desktopId][p], Dir(Location(k).Path))
DeepestValidIndex(desktopId) ==
    LET valid == {k \in LocationIndices : HasPathUnder(desktopId, k)}
    IN IF valid = {} THEN -1 ELSE CHOOSE k \in valid : \A h \in valid : h <= k
\* the id has been scanned at a location before location k
ExhaustedBefore(desktopId, k) ==
    \E h \in LocationIndices :
        h < k /\ Unqualified(h) /\ Location(h).HasDesktopFiles /\ HasPathUnder(desktopId, h)
\* GetDefaults has returned: defaults is the returned table
DefaultsReturned == pc \in {"merge", "done"}
\* the default is valid: the id resolves to a manifest that loads and is associated with the type
ValidDefault(mime, desktopId) ==
    /\ \E p \in 1..Len(Get(idPathsMap, desktopId)) : desktopFiles[idPathsMap[desktopId][p]].ok
    /\ InTable(associations, mime, desktopId)
\* the valid defaults of the file at location k for the type, in the order of the file
ValidDefaultsAt(k, mime) ==
    SelectSeq(Get(DirectivesAt(k).Default, mime), LAMBDA desktopId : ValidDefault(mime, desktopId))
\* the valid defaults of the locations k, k+1, ... in the order of the list
RECURSIVE ValidDefaultsFrom(_, _)
ValidDefaultsFrom(k, mime) ==
    IF k >= NumLocations THEN <<>> ELSE ValidDefaultsAt(k, mime) \o ValidDefaultsFrom(k + 1, mime)
\* GetLists has returned: list is the returned list
Listed == pc = "listed"
ConfigBaseDirs == <<basedir.ConfigHome>> \o basedir.ConfigDirs
DataBaseDirs == <<basedir.DataHome>> \o basedir.DataDirs
BaseDirs == ConfigBaseDirs \o DataBaseDirs
\* the number of entries of one base directory
PerBaseDir == IF desktop = <<>> THEN 1 ELSE 2
\* the base directory, 1-based in BaseDirs, of the entry at position k of the list
BaseDirOfEntry(k) == ((k - 1) \div PerBaseDir) + 1
QualifiedName == [k \in 1..Len(desktop) |-> LowerOf[desktop[k]]] \o <<"-mimeapps.list">>
\* the entry at position k is the qualified entry of its base directory
QualifiedEntry(k) == desktop # <<>> /\ k % 2 = 1
FileNameOfEntry(k) == IF QualifiedEntry(k) THEN QualifiedName ELSE MimeappsList
\* the base directory without its trailing separator
Trimmed(dir) == IF Len(dir) > 1 /\ dir[Len(dir)] = "/" THEN SubSeq(dir, 1, Len(dir) - 1) ELSE dir
\* the merge of GetPreferredApplications is done: associations is the returned table
Merged == pc = "done"
\* the line k of the reader, 1-based, is the header of a section, recognized or not
IsHeaderLine(k) == Len(reader.lines[k]) = 1 /\ reader.lines[k][1] \in Headers
\* the line k lies inside the section of the header: the header is the last header line before k
InSection(k, header) ==
    \E h \in 1..(k - 1) :
        /\ reader.lines[h] = <<header>>
        /\ \A q \in (h + 1)..(k - 1) : ~IsHeaderLine(q)
\* the line k is a line type=apps that names the type and the application
NamesPair(k, mime, desktopId) ==
    /\ Len(reader.lines[k]) >= 3
    /\ reader.lines[k][1] = mime
    /\ reader.lines[k][2] = "="
    /\ \E q \in 3..Len(reader.lines[k]) : reader.lines[k][q] = desktopId
\* a line inside the section of the header names the pair
SectionNamesPair(header, mime, desktopId) ==
    \E k \in 1..Len(reader.lines) : NamesPair(k, mime, desktopId) /\ InSection(k, header)
\* the line k is a line type=apps of the type
IsLineOf(k, mime) ==
    /\ Len(reader.lines[k]) >= 2
    /\ reader.lines[k][1] = mime
    /\ reader.lines[k][2] = "="
\* the application list of the line k: the text after "=", without the final ";", cut at ";"
ListOfLine(k) == Split(TrimSuffix(SubSeq(reader.lines[k], 3, Len(reader.lines[k]))))
\* the lists of the lines 1..k of the type inside the section of the header, one after the other
RECURSIVE ListsUpTo(_, _, _)
ListsUpTo(k, header, mime) ==
    IF k = 0 THEN <<>>
    ELSE ListsUpTo(k - 1, header, mime)
            \o (IF IsLineOf(k, mime) /\ InSection(k, header) THEN ListOfLine(k) ELSE <<>>)
\* the lines of the type inside the section of the header
SectionLinesOf(header, mime) == {k \in 1..Len(reader.lines) : IsLineOf(k, mime) /\ InSection(k, header)}
\* the list of the last line of the type inside the section of the header, <<>> without such a line
ListOfLastLine(header, mime) ==
    IF SectionLinesOf(header, mime) = {} THEN <<>>
    ELSE ListOfLine(CHOOSE k \in SectionLinesOf(header, mime) : \A q \in SectionLinesOf(header, mime) : q <= k)
\* the components of a clean absolute path: the texts between the separators, none for "/"
RECURSIVE ComponentsFrom(_, _)
ComponentsFrom(path, component) ==
    IF path = <<>> THEN (IF component = <<>> THEN <<>> ELSE <<component>>)
    ELSE IF Head(path) = "/"
         THEN (IF component = <<>> THEN <<>> ELSE <<component>>) \o ComponentsFrom(Tail(path), <<>>)
         ELSE ComponentsFrom(Tail(path), Append(component, Head(path)))
Components(path) == ComponentsFrom(path, <<>>)
\* sub is parent or lies below parent: the components of parent begin the components of sub
IsAtOrBelow(s, p) == IsPrefix(Components(p), Components(s))
\* the lists of broader types that the dictionary stores, by type
StoredLists(d, h) == [mime \in DOMAIN d |-> Contents(h, d[mime])]
\* the Subclass as LoadFromReaders returns it for the lines
Fresh == LoadFromReaders(readers)
\* depth-first pre-order from the types of the list, over the lists of a dictionary: a type that
\* was not visited is listed, then the types reached from its broader types, then the types
\* reached from the rest of the list
RECURSIVE PreOrder(_, _, _)
PreOrder(lists, todo, seen) ==
    IF todo = <<>> THEN <<>>
    ELSE IF Head(todo) \in seen THEN PreOrder(lists, Tail(todo), seen)
    ELSE LET below == PreOrder(lists, Get(lists, Head(todo)), seen \cup {Head(todo)})
         IN <<Head(todo)>> \o below
                \o PreOrder(lists, Tail(todo), seen \cup {Head(todo)} \cup Range(below))
\* no line of the data has the type as its specific type
NoLineOf(mime) == \A k \in 1..Len(readers) : readers[k].specific # mime
\* the last call was the first call on the loaded Subclass
FirstCall == run = 2
\* the sequence a is the sequence b with some of its elements left out
RECURSIVE IsSubsequence(_, _)
IsSubsequence(a, b) ==
    IF a = <<>> THEN TRUE
    ELSE IF b = <<>> THEN FALSE
    ELSE IF Head(a) = Head(b) THEN IsSubsequence(Tail(a), Tail(b))
    ELSE IsSubsequence(a, Tail(b))
\* the ids of the sequence are in strictly ascending lexicographic order
Ascending(s) == \A p, q \in 1..Len(s) : p < q => Rank(s[p]) < Rank(s[q])
\* what a step appends to the sequence of the type in the table of GetAssociations
Appended(mime) == SubSeq(Get(result', mime), Len(Get(result, mime)) + 1, Len(Get(result', mime)))
\* a loadable manifest of the id declares the type
SomeManifestDeclares(desktopId, mime) ==
    \E p \in 1..Len(Get(idPathsMap, desktopId)) :
        /\ desktopFiles[idPathsMap[desktopId][p]].ok
        /\ Contains(desktopFiles[idPathsMap[desktopId][p]].MimeType, mime)

(***************************************************************************)
(* C1: every sequence of the table of GetAssociations is free of duplicate *)
(* application ids, at every moment of the call and so in the table it     *)
(* returns.                                                                *)
(***************************************************************************)
C1_NoDuplicateAssociations ==
    \A mime \in DOMAIN result : NoDuplicates(result[mime])

\* the pair is Added by the files of two locations and declared by a scanned manifest
C1_Witness ==
    /\ Returned
    /\ NumLocations = 2
    /\ Location(0).Path # Location(1).Path
    /\ Unqualified(0) /\ Unqualified(1)
    /\ \E mime \in Mimes, desktopId \in Ids :
        /\ AddedAt(0, mime, desktopId) /\ AddedAt(1, mime, desktopId)
        /\ desktopId \in blacklistDesktopIds
        /\ SomeManifestDeclares(desktopId, mime)
        /\ InTable(result, mime, desktopId)

DecidedRemoved(mime, desktopId) ==
    /\ Blacklisted(blacklistMimeDesktop, mime, desktopId)
    /\ ~InTable(result, mime, desktopId)
    /\ ~(pc = "append" /\ InTable(toAdd, mime, desktopId))

C3_FirstDecisionWins ==
    [][\A mime \in Mimes, desktopId \in Ids :
        DecidedRemoved(mime, desktopId) =>
            /\ DecidedRemoved(mime, desktopId)'
            /\ ~InTable(result', mime, desktopId)
            /\ (mime \in DOMAIN result' => \E other \in Ids : other # desktopId /\ InTable(result', mime, other))
      ]_vars

\* Removed at location 0, then Added at location 1 and declared by the manifest scanned there
C3_Witness ==
    /\ Returned
    /\ NumLocations = 2
    /\ Unqualified(0) /\ Unqualified(1)
    /\ \E mime \in Mimes, desktopId \in Ids :
        /\ RemovedAt(0, mime, desktopId) /\ AddedAt(1, mime, desktopId)
        /\ DeepestValidIndex(desktopId) = 1
        /\ desktopId \in blacklistDesktopIds
        /\ SomeManifestDeclares(desktopId, mime)
        /\ DecidedRemoved(mime, desktopId)
        /\ mime \notin DOMAIN result

C6_DefaultsAreAssociated ==
    \A mime \in DOMAIN defaults :
        /\ defaults[mime] # <<>>
        /\ \A k \in 1..Len(defaults[mime]) : InTable(associations, mime, defaults[mime][k])

\* a Default directive names a loadable id that is not associated with the type and is dropped
C6_Witness ==
    /\ pc = "merge"
    /\ \E desktopId \in Ids, mime \in Mimes, k \in LocationIndices :
        /\ DefaultAt(k, mime, desktopId)
        /\ LoadById(desktopId) # <<>>
        /\ ~InTable(associations, mime, desktopId)
        /\ mime \notin DOMAIN defaults

(***************************************************************************)
(* C7: for every type in both tables the merged sequence is the default    *)
(* sequence, in order, followed by the associations not among the defaults *)
(* in their order, and has no duplicates.                                  *)
(***************************************************************************)
RECURSIVE NotIn(_, _)
NotIn(s, excluded) ==
    IF s = <<>> THEN <<>>
    ELSE (IF Head(s) \in excluded THEN <<>> ELSE <<Head(s)>>) \o NotIn(Tail(s), excluded)

C7_MergeLaw ==
    pc = "done" =>
        \A mime \in (DOMAIN defaults) \cap (DOMAIN result) :
            /\ associations[mime] = defaults[mime] \o NotIn(result[mime], Range(defaults[mime]))
            /\ NoDuplicates(associations[mime])

(***************************************************************************)
(* C8: two calls of GetAssociations on the same inputs return the same     *)
(* table, whatever the orders in which the two calls range over their maps.*)
(***************************************************************************)
LoopDone == pc = "location" /\ i = NumLocations

C8_Deterministic == (run = 2 /\ LoopDone) => result = firstResult

\* both calls discovered two ids for one type in one scan, and Added two types in one file
C8_Witness ==
    /\ run = 2 /\ LoopDone
    /\ \/ \E mime \in DOMAIN toAdd : Len(toAdd[mime]) = 2 /\ Len(Get(result, mime)) = 2
       \/ /\ Cardinality(DOMAIN result) = 2
          /\ \E k \in LocationIndices : Unqualified(k) /\ Cardinality(DOMAIN DirectivesAt(k).Added) = 2

(***************************************************************************)
(* C9: an id enters the sequence of a type only (a) in the step over the   *)
(* Added directives of an unqualified location whose file names the pair,  *)
(* the pair being undecided, or (b) in the step that appends the ids       *)
(* queued by the scan; and the scan of a location queues an id for a type  *)
(* only if the location has colocated manifests, a loadable manifest of    *)
(* the id under its directory declares the type, and the pair was          *)
(* undecided.                                                              *)
(***************************************************************************)
ManifestUnderDeclares(desktopId, k, mime) ==
    \E p \in 1..Len(Get(idPathsMap, desktopId)) :
        /\ isSubPathAbs(idPathsMap[desktopId][p], Dir(Location(k).Path))
        /\ desktopFiles[idPathsMap[desktopId][p]].ok
        /\ Contains(desktopFiles[idPathsMap[desktopId][p]].MimeType, mime)

C9_SoundAssociations ==
    [][\A mime \in Mimes, desktopId \in Ids :
        /\ (InTable(result', mime, desktopId) /\ ~InTable(result, mime, desktopId)) =>
              \/ /\ pc = "added"
                 /\ Unqualified(i)
                 /\ AddedAt(i, mime, desktopId)
                 /\ ~Blacklisted(blacklistMimeDesktop, mime, desktopId)
              \/ /\ pc = "append"
                 /\ InTable(toAdd, mime, desktopId)
        /\ (pc = "scan" /\ InTable(toAdd', mime, desktopId)) =>
              /\ Unqualified(i)
              /\ Location(i).HasDesktopFiles
              /\ ManifestUnderDeclares(desktopId, i, mime)
              /\ ~Blacklisted(blacklistMimeDesktop, mime, desktopId)
      ]_vars

\* one pair is in the table by a manifest alone, another by an Added directive alone
C9_Witness ==
    /\ Returned
    /\ \E mime \in Mimes, desktopId \in Ids :
        /\ InTable(result, mime, desktopId)
        /\ \A k \in LocationIndices : ~AddedAt(k, mime, desktopId)
    /\ \E mime \in Mimes, desktopId \in Ids :
        /\ InTable(result, mime, desktopId)
        /\ ~SomeManifestDeclares(desktopId, mime)

(***************************************************************************)
(* C10 as stated: the scan of an unqualified location with colocated       *)
(* manifests queues, and the next step adds to the table, every id that is *)
(* not exhausted and has a loadable manifest under the directory of the    *)
(* location, for every type that manifest declares and for which the pair  *)
(* is undecided.                                                           *)
(***************************************************************************)
ReachesScan ==
    /\ (pc = "location" /\ i < NumLocations /\ Unqualified(i)) => pc' = "added"
    /\ pc = "added" => pc' = "removed"
    /\ (pc = "removed" /\ Location(i).HasDesktopFiles) => pc' = "scan"
    /\ pc = "scan" => pc' = "append"

C10_LoadableManifestIsDiscovered ==
    [][ /\ ReachesScan
        /\ \A mime \in Mimes, desktopId \in Ids :
            /\ ( /\ pc = "scan"
                 /\ desktopId \notin blacklistDesktopIds
                 /\ ManifestUnderDeclares(desktopId, i, mime)
                 /\ ~Blacklisted(blacklistMimeDesktop, mime, desktopId) )
                    => InTable(toAdd', mime, desktopId)
            /\ (pc = "append" /\ InTable(toAdd, mime, desktopId)) => InTable(result', mime, desktopId)
            /\ InTable(result, mime, desktopId) => InTable(result', mime, desktopId)
      ]_vars

(***************************************************************************)
(* What the scan does instead (not the statement of C10): it discovers     *)
(* every id that is not exhausted and whose first manifest path under the  *)
(* directory of the location, in the order of the index, loads; the id is  *)
(* added for every type that manifest declares and for which the pair is   *)
(* undecided.  A later loadable path of the same id is never tried.        *)
(***************************************************************************)
FirstManifestUnderDeclares(desktopId, k, mime) ==
    \E p \in 1..Len(Get(idPathsMap, desktopId)) :
        /\ isSubPathAbs(idPathsMap[desktopId][p], Dir(Location(k).Path))
        /\ \A q \in 1..(p - 1) : ~isSubPathAbs(idPathsMap[desktopId][q], Dir(Location(k).Path))
        /\ desktopFiles[idPathsMap[desktopId][p]].ok
        /\ Contains(desktopFiles[idPathsMap[desktopId][p]].MimeType, mime)

FirstManifestUnderIsDiscovered ==
    [][ /\ ReachesScan
        /\ \A mime \in Mimes, desktopId \in Ids :
            /\ ( /\ pc = "scan"
                 /\ desktopId \notin blacklistDesktopIds
                 /\ FirstManifestUnderDeclares(desktopId, i, mime)
                 /\ ~Blacklisted(blacklistMimeDesktop, mime, desktopId) )
                    => InTable(toAdd', mime, desktopId)
            /\ (pc = "append" /\ InTable(toAdd, mime, desktopId)) => InTable(result', mime, desktopId)
            /\ InTable(result, mime, desktopId) => InTable(result', mime, desktopId)
      ]_vars

\* an id is in the returned table for two types by its manifest, no directive naming the id or the types
DiscoveredWithoutDirective ==
    /\ Returned
    /\ \E desktopId \in Ids :
        /\ \A mime \in Mimes : InTable(result, mime, desktopId)
        /\ \A k \in LocationIndices, mime \in Mimes, other \in Ids :
            /\ ~AddedAt(k, mime, other)
            /\ ~RemovedAt(k, mime, other)

(***************************************************************************)
(* C11: a file of the list that is missing, cannot be opened or fails to   *)
(* parse counts as an empty file: called again with every failing file     *)
(* replaced by an empty file, GetAssociations returns the same table and   *)
(* GetDefaults returns the same table.                                     *)
(***************************************************************************)
C11_FailingFileIsEmptyFile ==
    (run = 2 /\ pc = "merge") => (result = firstResult /\ defaults = firstDefaults)

\* the only file of the first call is in error after a Default directive for a pair that a
\* manifest under its directory declares: the scan of that location has associated the pair,
\* and the table of defaults is empty
C11_Witness ==
    /\ run = 2 /\ pc = "merge"
    /\ NumLocations = 1
    /\ firstFiles[Location(0).Path].status = "error"
    /\ \E desktopId \in Ids, mime \in Mimes :
        /\ Contains(Get(Parse(firstFiles[Location(0).Path].lines).Default, mime), desktopId)
        /\ InTable(result, mime, desktopId)
    /\ defaults = EmptyMap

(***************************************************************************)
(* C14: the directives of a file whose base name is not mimeapps.list      *)
(* change nothing in GetAssociations: the step over such a location leaves *)
(* the table and the decided pairs alone, and called again with every such *)
(* file replaced by an empty file GetAssociations returns the same table.  *)
(***************************************************************************)
C14_QualifiedDirectivesIgnored ==
    /\ []((run = 2 /\ pc = "location" /\ i = NumLocations) => result = firstResult)
    /\ [][(pc = "location" /\ i < NumLocations /\ Base(Location(i).Path) # MimeappsList)
            => UNCHANGED <<result, blacklistMimeDesktop, blacklistDesktopIds>>]_vars

\* the file of the first call at a qualified location holds an Added directive for a pair whose
\* id has a manifest under the directory, and the table does not hold the pair
C14_Witness ==
    /\ run = 2 /\ pc = "location" /\ i = NumLocations
    /\ \E k \in LocationIndices, desktopId \in Ids, mime \in Mimes :
        /\ ~Unqualified(k)
        /\ Contains(Get(Parse(firstFiles[Location(k).Path].lines).Added, mime), desktopId)
        /\ HasPathUnder(desktopId, k)
        /\ DeepestValidIndex(desktopId) >= k
        /\ ~InTable(result, mime, desktopId)

(***************************************************************************)
(* C12 as stated: no sequence of the table returned by GetDefaults holds   *)
(* the same application id twice.                                          *)
(***************************************************************************)
C12_NoDuplicateDefaults ==
    DefaultsReturned => \A mime \in DOMAIN defaults : NoDuplicates(defaults[mime])

(***************************************************************************)
(* C13: the sequence that GetDefaults returns for a type is the            *)
(* concatenation, in the order of the list of locations, qualified files   *)
(* included, of the valid defaults of each file in the order of the file.  *)
(***************************************************************************)
C13_DefaultsInLocationOrder ==
    DefaultsReturned =>
        /\ i = NumLocations
        /\ \A mime \in Mimes : Get(defaults, mime) = ValidDefaultsFrom(0, mime)

\* a qualified file with a valid default is followed by the unqualified file with another valid
\* default of the same type: the default of the qualified file comes first
C13_Witness ==
    /\ pc = "merge"
    /\ NumLocations = 2 /\ ~Unqualified(0) /\ Unqualified(1)
    /\ \E mime \in Mimes, a, b \in Ids :
        /\ a # b
        /\ ValidDefaultsAt(0, mime) = <<a>>
        /\ ValidDefaultsAt(1, mime) = <<b>>
        /\ defaults[mime] = <<a, b>>

(***************************************************************************)
(* C15: GetLists lists the base directories in the order config home,      *)
(* config dirs, data home, data dirs; with a desktop hint every base       *)
(* directory has the entry <lower case hint>-mimeapps.list followed by the *)
(* entry mimeapps.list, without a hint it has the one entry mimeapps.list; *)
(* every entry lies under its base directory.                              *)
(***************************************************************************)
C15_ListsInPrecedenceOrder ==
    Listed =>
        /\ Len(list) = PerBaseDir * Len(BaseDirs)
        /\ \A k \in 1..Len(list) :
            /\ Base(list[k].Path) = FileNameOfEntry(k)
            /\ isSubPathAbs(list[k].Path, Trimmed(BaseDirs[BaseDirOfEntry(k)]))

\* a hint in upper case, two config dirs and two data dirs that differ
C15_Witness ==
    /\ Listed
    /\ desktop = <<"GNOME">>
    /\ Len(list) = 12
    /\ basedir.ConfigDirs[1] # basedir.ConfigDirs[2]
    /\ basedir.DataDirs[1] # basedir.DataDirs[2]
    /\ Base(list[11].Path) = <<"gnome", "-mimeapps.list">>

(***************************************************************************)
(* C16 as stated: a path of GetLists is <base dir>/<file name> for config  *)
(* home and config dirs and <base dir>/applications/<file name> for data   *)
(* home and data dirs.                                                     *)
(***************************************************************************)
C16_ApplicationsOnceInDataPaths ==
    Listed =>
        \A k \in 1..Len(list) :
            list[k].Path =
                Trimmed(BaseDirs[BaseDirOfEntry(k)])
                \o (IF BaseDirOfEntry(k) > Len(ConfigBaseDirs) THEN <<"/", "applications">> ELSE <<>>)
                \o <<"/">> \o FileNameOfEntry(k)

(***************************************************************************)
(* C17 as stated: HasDesktopFiles is true exactly for the mimeapps.list    *)
(* entries of data home and data dirs.                                     *)
(***************************************************************************)
C17_HasDesktopFilesOnlyUnqualifiedData ==
    Listed =>
        \A k \in 1..Len(list) :
            list[k].HasDesktopFiles <=> (BaseDirOfEntry(k) > Len(ConfigBaseDirs) /\ ~QualifiedEntry(k))

(***************************************************************************)
(* C18: GetPreferredApplications returns, for every type that has no entry *)
(* in the table of defaults, the sequence of GetAssociations unchanged; a  *)
(* type without defaults is a key of the result exactly when it is a key   *)
(* of the table of GetAssociations.                                        *)
(***************************************************************************)
C18_TypesWithoutDefaultUnchanged ==
    Merged =>
        \A mime \in Mimes :
            mime \notin DOMAIN defaults =>
                /\ (mime \in DOMAIN associations <=> mime \in DOMAIN result)
                /\ Get(associations, mime) = Get(result, mime)

\* one type has a default that moves an id to the front, another type has associations and no default
C18_Witness ==
    /\ Merged
    /\ \E mime, other \in Mimes :
        /\ mime \in DOMAIN defaults
        /\ associations[mime] # result[mime]
        /\ other \notin DOMAIN defaults
        /\ other \in DOMAIN result
        /\ result[other] # <<>>

(***************************************************************************)
(* C19 as stated: GetDefaults called without an index returns a table that *)
(* depends on its arguments and on the filesystem alone: a second call     *)
(* with the same locations, associations and files returns the same table  *)
(* whatever the base-directory variables of package basedir hold.          *)
(***************************************************************************)
C19_DefaultsIndependentOfBasedir ==
    (run = 2 /\ DefaultsReturned) => defaults = firstDefaults

(***************************************************************************)
(* C20 as stated: Parse attributes a pair of a line type=apps to Default,  *)
(* Added or Removed only when the line lies inside the section of that     *)
(* name; a line before the first recognized header or after the header of  *)
(* an unrecognized section is attributed to nothing.                       *)
(***************************************************************************)
C20_AttributedOnlyInsideSection ==
    pc = "parsed" =>
        \A mime \in Mimes, desktopId \in Ids :
            /\ InTable(mimeApps.Default, mime, desktopId)
                => SectionNamesPair("[Default Applications]", mime, desktopId)
            /\ InTable(mimeApps.Added, mime, desktopId)
                => SectionNamesPair("[Added Associations]", mime, desktopId)
            /\ InTable(mimeApps.Removed, mime, desktopId)
                => SectionNamesPair("[Removed Associations]", mime, desktopId)

(***************************************************************************)
(* C21: an id that GetAssociations has appended to the sequence of a type  *)
(* stays in the sequence through every later step, Removed directives of   *)
(* the same and of later files included; and one unqualified location      *)
(* whose file holds one Added directive, for an id that is the only id of  *)
(* the index, has a manifest path under the directory of the location and  *)
(* declares no other type, returns the table of that single association.   *)
(***************************************************************************)
OnlyLine(k, section, mime, desktopId) ==
    files[Location(k).Path].lines = << <<section>>, <<mime, "=", desktopId, ";">> >>

C21_AddedNeverRetracted ==
    /\ [][\A mime \in Mimes, desktopId \in Ids :
            InTable(result, mime, desktopId) => InTable(result', mime, desktopId)]_vars
    /\ [](Returned =>
            \A mime \in Mimes, desktopId \in Ids :
                ( /\ NumLocations = 1
                  /\ Unqualified(0)
                  /\ OnlyLine(0, "[Added Associations]", mime, desktopId)
                  /\ DOMAIN idPathsMap = {desktopId}
                  /\ HasPathUnder(desktopId, 0)
                  /\ \A other \in Mimes : SomeManifestDeclares(desktopId, other) => other = mime )
                    => result = [x \in {mime} |-> <<desktopId>>])

\* the file of the only location names the pair as Added and as Removed, a manifest of the id
\* under the directory declares the type, and the pair is in the returned table
C21_Witness ==
    /\ Returned
    /\ NumLocations = 1
    /\ Unqualified(0)
    /\ \E mime \in Mimes, desktopId \in Ids :
        /\ AddedAt(0, mime, desktopId) /\ RemovedAt(0, mime, desktopId)
        /\ HasPathUnder(desktopId, 0)
        /\ SomeManifestDeclares(desktopId, mime)
        /\ result = [x \in {mime} |-> <<desktopId>>]

(***************************************************************************)
(* C22: exhaustion.  The scan of location i marks every id that has a      *)
(* manifest path under the directory of the location as exhausted, also    *)
(* when its manifest fails to load; an exhausted id stays exhausted; the   *)
(* Added and Removed directives of a later location change neither the     *)
(* table nor the decided pairs of an exhausted id, and a later scan queues *)
(* no exhausted id and decides none of its pairs.                          *)
(***************************************************************************)
C22_Exhaustion ==
    [][ /\ blacklistDesktopIds \subseteq blacklistDesktopIds'
        /\ pc = "scan" =>
            \A desktopId \in Ids : HasPathUnder(desktopId, i) => desktopId \in blacklistDesktopIds'
        /\ \A desktopId \in blacklistDesktopIds, mime \in Mimes :
            /\ InTable(result', mime, desktopId) = (InTable(result, mime, desktopId)
                                                    \/ (pc = "append" /\ InTable(toAdd, mime, desktopId)))
            /\ pc = "scan" => ~InTable(toAdd', mime, desktopId)
            /\ Blacklisted(blacklistMimeDesktop', mime, desktopId)
                    = Blacklisted(blacklistMimeDesktop, mime, desktopId)
      ]_vars

\* the manifest of the id under the directory of location 0 fails to load there, a manifest of
\* the same id under the directory of location 1 alone loads and declares a type that location 1
\* also names as Added: the id is exhausted and the table is empty
C22_Witness ==
    /\ Returned
    /\ NumLocations = 2
    /\ Unqualified(0) /\ Unqualified(1)
    /\ Location(0).HasDesktopFiles /\ Location(1).HasDesktopFiles
    /\ \E desktopId \in Ids, mime \in Mimes :
        /\ HasPathUnder(desktopId, 0)
        /\ DeepestValidIndex(desktopId) = 1
        /\ SomeManifestDeclares(desktopId, mime)
        /\ AddedAt(1, mime, desktopId)
        /\ desktopId \in blacklistDesktopIds
    /\ result = EmptyMap

(***************************************************************************)
(* C23: the sequence of a type only grows at its end, location after       *)
(* location.  The step over the Added directives of a location appends ids *)
(* of the Added list of the type in the order of the file; the step that   *)
(* follows the scan of the same location appends the ids the scan has      *)
(* queued for the type, in ascending lexicographic order; no other step    *)
(* changes the sequence.                                                   *)
(***************************************************************************)
C23_OrderOfAssociations ==
    [][\A mime \in Mimes :
        /\ IsPrefix(Get(result, mime), Get(result', mime))
        /\ pc = "added" => IsSubsequence(Appended(mime), Get(parsed.Added, mime))
        /\ pc = "append" =>
            /\ Ascending(Appended(mime))
            /\ Range(Appended(mime)) = Range(Get(toAdd, mime))
        /\ pc \notin {"added", "append"} => Appended(mime) = <<>>
      ]_vars

\* the Added directive of the location names foo.desktop and the scan of the same location
\* discovers bar.desktop for the type: foo.desktop comes first
C23_Witness ==
    /\ Returned
    /\ NumLocations = 1
    /\ \E mime \in Mimes :
        /\ AddedAt(0, mime, "foo.desktop")
        /\ InTable(toAdd, mime, "bar.desktop")
        /\ result[mime] = <<"foo.desktop", "bar.desktop">>

(***************************************************************************)
(* C24: when GetPreferredApplications returns, its table has the keys of   *)
(* the table of GetAssociations and, for every type, the same set of ids:  *)
(* the defaults of GetDefaults name only types and ids that are            *)
(* associated, and merging them only reorders a sequence.                  *)
(***************************************************************************)
C24_SameIdsAsAssociations ==
    Merged =>
        /\ DOMAIN associations = DOMAIN result
        /\ DOMAIN defaults \subseteq DOMAIN result
        /\ \A mime \in DOMAIN result :
            /\ Range(associations[mime]) = Range(result[mime])
            /\ Range(Get(defaults, mime)) \subseteq Range(result[mime])

\* a default moved an id in front of an id that an earlier location associated, and the
\* two sequences still hold the same two ids
C24_Witness ==
    /\ Merged
    /\ \E mime \in DOMAIN defaults :
        /\ Len(result[mime]) = 2
        /\ associations[mime] = <<result[mime][2], result[mime][1]>>
        /\ defaults[mime] = <<result[mime][2]>>

(***************************************************************************)
(* C25: when GetPreferredApplications returns, no sequence of its table    *)
(* holds an application id twice, also for a type whose default sequence   *)
(* from GetDefaults holds an id twice.                                     *)
(***************************************************************************)
C25_NoDuplicates ==
    Merged => \A mime \in DOMAIN associations : NoDuplicates(associations[mime])

\* the defaults of a type hold the same id twice, and the merged sequence holds it once
C25_Witness ==
    /\ Merged
    /\ \E mime \in DOMAIN defaults :
        /\ ~NoDuplicates(defaults[mime])
        /\ NoDuplicates(associations[mime])

(***************************************************************************)
(* C26 as stated: when Parse returns without a read error, the list of a   *)
(* type in Added and in Removed is the concatenation, in file order, of    *)
(* the lists of the lines of the type inside the section of that name, and *)
(* the list of a type in Default is the list of the last line of the type  *)
(* inside [Default Applications].                                          *)
(***************************************************************************)
C26_AccumulateOrReplace ==
    (pc = "parsed" /\ ~reader.err) =>
        \A mime \in Mimes :
            /\ Get(mimeApps.Added, mime) = ListsUpTo(Len(reader.lines), "[Added Associations]", mime)
            /\ Get(mimeApps.Removed, mime) = ListsUpTo(Len(reader.lines), "[Removed Associations]", mime)
            /\ Get(mimeApps.Default, mime) = ListOfLastLine("[Default Applications]", mime)

(***************************************************************************)
(* C27 as stated: for clean absolute paths, isSubPathAbs(sub, parent) is   *)
(* true exactly when sub is parent or lies below parent at a component     *)
(* boundary.                                                               *)
(***************************************************************************)
C27_SubPathAtComponentBoundary ==
    pc = "called" => (isSub <=> IsAtOrBelow(sub, parent))

(***************************************************************************)
(* C28 as stated: after every call of BroaderDfs or BroaderOnce, the first *)
(* or a later one, the Subclass stores the lists that LoadFromReaders      *)
(* stored, and the call has returned what it returns as the first call on  *)
(* the freshly loaded Subclass.                                            *)
(***************************************************************************)
C28_PureQuery ==
    pc \in {"BroaderDfs", "BroaderOnce"} =>
        /\ StoredLists(dict, heap) = StoredLists(Fresh.dict, Fresh.heap)
        /\ pc = "BroaderDfs" => returned = BroaderDfs(Fresh.dict, Fresh.heap, query).result
        /\ pc = "BroaderOnce" => returned = BroaderOnce(Fresh.dict, Fresh.heap, query)

(***************************************************************************)
(* C29 as stated: the first BroaderDfs call on a loaded Subclass returns   *)
(* text/plain, application/octet-stream for a text type other than         *)
(* text/plain without a line, application/octet-stream for text/plain      *)
(* with empty data, nothing for application/octet-stream and for an        *)
(* x-scheme-handler type without lines, and never application/octet-stream *)
(* for an inode type whose data names inode types only.                    *)
(***************************************************************************)
C29_ImplicitParents ==
    (pc = "BroaderDfs" /\ FirstCall) =>
        /\ (HasPrefix(query, <<"text", "/">>) /\ query # mimeTextPlain /\ NoLineOf(query))
                => returned = <<mimeTextPlain, mimeOctet>>
        /\ (query = mimeTextPlain /\ readers = <<>>) => returned = <<mimeOctet>>
        /\ (query = mimeOctet /\ NoLineOf(query)) => returned = <<>>
        /\ (HasPrefix(query, <<"x-scheme-handler", "/">>) /\ NoLineOf(query)) => returned = <<>>
        /\ ( /\ HasPrefix(query, <<"inode", "/">>)
             /\ \A k \in 1..Len(readers) : HasPrefix(readers[k].broad, <<"inode", "/">>) )
                => ~Contains(returned, mimeOctet)

====
